---------------------------- MODULE Spec2Model ----------------------------
(***************************************************************************)
(* Polymorphic components of entt (zheka2304/entt): the container cell of  *)
(* src/entt/entity/polymorphic.hpp, its reference list and page pool, and  *)
(* the hierarchy fan-out between the storages of a registry.               *)
(*                                                                         *)
(* Addresses are pairs <<segment, offset>>:                                *)
(*   <<0, 0>>      the static null list of null_list_base()                *)
(*   <<-T, e>>     the cell (and value buffer) of type T on entity e       *)
(*   <<-100, T>>   the function container<T>::deleter                      *)
(*   <<-300, 0>>   "the buffer holds the bytes of a Component object"      *)
(*   <<-200, 0>>   a word that was never written                           *)
(*   <<p, i>>      p >= 1: slot i of page p of the page source             *)
(***************************************************************************)
EXTENDS Integers, Sequences, FiniteSets, TLC

\* ------------------------------------------------------------------ bounds
\* number of entities the registry creates
NumEntities == 1
\* largest number of component values alive at once, over all entities
MaxLive == 4

Entities == 1..NumEntities

\* ------------------------------------------------------- component types
\* the components of test/entt/entity/polymorphic.cpp
polymorphic_base == 1
polymorphic_parent == 2
polymorphic_component == 3
polymorphic_component_sibling == 4

Types == {polymorphic_base, polymorphic_parent, polymorphic_component,
          polymorphic_component_sibling}

\* a hierarchy in which one ancestor is reached along two paths:
\* diamond_left : inherit<diamond_root>, diamond_right : inherit<diamond_root>,
\* diamond_bottom : inherit<diamond_left, diamond_right>
diamond_root == 5
diamond_left == 6
diamond_right == 7
diamond_bottom == 8

DiamondTypes == {diamond_root, diamond_left, diamond_right, diamond_bottom}

\* further components under the root of the diamond, each of them
\* wide_leaf : inherit<diamond_root>, so that the list of one cell grows past
\* its first capacities
NumLeaves == 5

WideLeaves == (diamond_bottom + 1)..(diamond_bottom + NumLeaves)

WideTypes == DiamondTypes \cup WideLeaves

AllTypes == Types \cup WideTypes

\* entt::inherit<ParentT...>::direct_parent_types_t of each test component
direct_parent_types_t(T) ==
    CASE T = polymorphic_base -> <<>>
      [] T = polymorphic_parent -> <<polymorphic_base>>
      [] T = polymorphic_component -> <<polymorphic_parent>>
      [] T = polymorphic_component_sibling -> <<polymorphic_parent>>
      [] T = diamond_root -> <<>>
      [] T = diamond_left -> <<diamond_root>>
      [] T = diamond_right -> <<diamond_root>>
      [] T = diamond_bottom -> <<diamond_left, diamond_right>>
      [] T \in WideLeaves -> <<diamond_root>>

\* type_list_cat_t over a list of type lists
RECURSIVE type_list_cat(_)
type_list_cat(lists) ==
    IF lists = <<>> THEN <<>> ELSE Head(lists) \o type_list_cat(Tail(lists))

\* type_list_unique_t: keeps the first occurrence of every type
RECURSIVE type_list_unique(_)
type_list_unique(l) ==
    IF l = <<>> THEN <<>>
    ELSE <<Head(l)>> \o type_list_unique(SelectSeq(Tail(l), LAMBDA x : x # Head(l)))

\* inherit<ParentT...>::parent_types_t =
\*     type_list_cat_t<direct_parent_types_t, typename ParentT::parent_types_t...>
RECURSIVE parent_types_t(_)
parent_types_t(T) ==
    LET d == direct_parent_types_t(T)
    IN d \o type_list_cat([i \in 1..Len(d) |-> parent_types_t(d[i])])

\* a hierarchy accessor that hands out parent_types_t as it is
parent_types_cat(T) == parent_types_t(T)

\* component_hierarchy<Component>::parent_types
parent_types(T) == type_list_unique(parent_types_t(T))

Range(s) == {s[i] : i \in 1..Len(s)}

\* is_same_or_parent_of_v<Parent, Child>
is_same_or_parent_of(P, C) == P = C \/ P \in Range(parent_types(C))

\* ----------------------------------------------------- addresses and words
null_list_base == <<0, 0>>
value_base(T, e) == <<-T, e>>
deleter_of(T) == <<-100, T>>
ObjectBytes == <<-300, 0>>
Unwritten == <<-200, 0>>
NoRef == [pointer |-> Unwritten, deleter |-> Unwritten]

IsArray(a) == a[1] >= 1

\* the words at a list base; the static null list reads size 0, capacity 0
Arr(w, base) ==
    IF base \in DOMAIN w.heap THEN w.heap[base]
    ELSE [size |-> 0, capacity |-> 0, mem |-> <<>>]

\* ---------------------------------------------------------------- page pool
page_size == 1024

\* sizeof(polymorphic_component_ref) / sizeof(void *)
elems_per_ref == 2

\* the words from the base of its page that the array at a takes, by the
\* stride of the page and the capacity in the header of the array
stride(elem_size) == elems_per_ref * elem_size + 2

ArrayWords(w, a) ==
    LET start == a[2] * stride(w.pages[a[1]].elem_size)
    IN start..(start + 2 + elems_per_ref * Arr(w, a).capacity - 1)

allocate_page(elem_size) ==
    [elem_size |-> elem_size, elem_count |-> 0, free_list |-> -1]

\* a world w is the whole memory of the program; the pool lives in w.pages
\* (the vector of pages), w.heap (the words of every slot ever handed out)
\* and w.inuse (ghost: the slots handed out and not given back)

\* a search that answers with the last page of this element size that has
\* room
find_page_last(ps, count) ==
    LET hits == {i \in 1..Len(ps) :
                    /\ ps[i].elem_size = count
                    /\ (ps[i].elem_count < page_size \/ ps[i].free_list # -1)}
    IN IF hits = {} THEN 0 ELSE CHOOSE i \in hits : \A j \in hits : i >= j

\* std::find_if over the pages: the first page of this element size that has
\* room, 0 for end()
find_page(ps, count) ==
    LET hits == {i \in 1..Len(ps) :
                    /\ ps[i].elem_size = count
                    /\ (ps[i].elem_count < page_size \/ ps[i].free_list # -1)}
    IN IF hits = {} THEN 0 ELSE CHOOSE i \in hits : \A j \in hits : i <= j

\* if (it == pages.end()) { pages.push_back(allocate_page(count)); ... }
ensure_page(w, count) ==
    IF find_page(w.pages, count) = 0
    THEN [w EXCEPT !.pages = Append(@, allocate_page(count))]
    ELSE w

\* a page that hands out a slot it never handed out while it has one,
\* and turns to its free list only when it has none
take_slot_bump(w, pg, count) ==
    LET p == w.pages[pg]
        fresh == p.elem_count < page_size
        index == IF fresh THEN p.elem_count ELSE p.free_list
        start == <<pg, index>>
        p2 == IF fresh THEN [p EXCEPT !.elem_count = @ + 1]
              ELSE [p EXCEPT !.free_list = Arr(w, start).size]
        old == IF start \in DOMAIN w.heap THEN w.heap[start].mem
               ELSE [i \in 1..count |-> NoRef]
        arr == [size |-> 0, capacity |-> count, mem |-> old]
    IN [w |-> [w EXCEPT !.pages[pg] = p2,
                        !.heap = (start :> arr) @@ w.heap,
                        !.inuse = @ \cup {start}],
        ret |-> start]

\* a page that hands out the head of its free list and leaves the head where
\* it is
take_slot_stale(w, pg, count) ==
    LET p == w.pages[pg]
        index == IF p.free_list # -1 THEN p.free_list ELSE p.elem_count
        start == <<pg, index>>
        p2 == IF p.free_list # -1 THEN p
              ELSE [p EXCEPT !.elem_count = @ + 1]
        old == IF start \in DOMAIN w.heap THEN w.heap[start].mem
               ELSE [i \in 1..count |-> NoRef]
        arr == [size |-> 0, capacity |-> count, mem |-> old]
    IN [w |-> [w EXCEPT !.pages[pg] = p2,
                        !.heap = (start :> arr) @@ w.heap,
                        !.inuse = @ \cup {start}],
        ret |-> start]

\* the slot handed out by page pg: the head of its free list, whose link is
\* read from the slot's first word, or else the next unused slot
take_slot(w, pg, count) ==
    LET p == w.pages[pg]
        index == IF p.free_list # -1 THEN p.free_list ELSE p.elem_count
        start == <<pg, index>>
        p2 == IF p.free_list # -1
              THEN [p EXCEPT !.free_list = Arr(w, start).size]
              ELSE [p EXCEPT !.elem_count = @ + 1]
        old == IF start \in DOMAIN w.heap THEN w.heap[start].mem
               ELSE [i \in 1..count |-> NoRef]
        arr == [size |-> 0, capacity |-> count, mem |-> old]
    IN [w |-> [w EXCEPT !.pages[pg] = p2,
                        !.heap = (start :> arr) @@ w.heap,
                        !.inuse = @ \cup {start}],
        ret |-> start]

allocate_from(w, count) == take_slot(w, find_page(w.pages, count), count)

allocate_array(w, count) == allocate_from(ensure_page(w, count), count)

\* free_array with the assertions compiled out on an array of a page
free_array_unasserted(w, array) ==
    LET ps == w.pages
        found == IF IsArray(array) /\ array[1] <= Len(ps)
                    /\ array[2] < page_size THEN array[1] ELSE 0
    IN IF found = 0
       THEN [w EXCEPT !.err = @ \cup {"free_array: no page"}]
       ELSE [w EXCEPT !.pages[found].free_list = array[2],
                      !.heap[array].size = ps[found].free_list,
                      !.inuse = @ \ {array},
                      !.err = IF array \in w.inuse THEN @
                              ELSE @ \cup {"free_array: double free"}]

free_array(w, array) ==
    LET ps == w.pages
        found == IF IsArray(array) /\ array[1] <= Len(ps)
                    /\ array[2] < page_size THEN array[1] ELSE 0
    IN IF found = 0
       THEN [w EXCEPT !.err = @ \cup {"free_array: no page"}]
       ELSE IF ps[found].elem_size # Arr(w, array).capacity
       THEN [w EXCEPT !.err = @ \cup {"free_array: size mismatch"}]
       ELSE [w EXCEPT !.pages[found].free_list = array[2],
                      !.heap[array].size = ps[found].free_list,
                      !.inuse = @ \ {array},
                      !.err = IF array \in w.inuse THEN @
                              ELSE @ \cup {"free_array: double free"}]

\* ------------------------------------------------------------ reference list
\* core/memory.hpp: the least power of two that is >= n
RECURSIVE pow2_from(_, _)
pow2_from(p, n) == IF p >= n THEN p ELSE pow2_from(2 * p, n)
next_power_of_two(n) == pow2_from(1, n)

get_size(w, base) == Arr(w, base).size
get_capacity(w, base) == Arr(w, base).capacity

\* get_list()[i], i counted from 0 as in the source
MemAt(w, base, i) ==
    IF i + 1 \in DOMAIN Arr(w, base).mem THEN Arr(w, base).mem[i + 1] ELSE NoRef

MemSet(w, base, i, ref) ==
    IF i + 1 \in DOMAIN Arr(w, base).mem
    THEN [w EXCEPT !.heap[base].mem[i + 1] = ref]
    ELSE [w EXCEPT !.err = @ \cup {"list: write outside the array"}]

set_size(w, base, n) ==
    IF base \in DOMAIN w.heap THEN [w EXCEPT !.heap[base].size = n]
    ELSE [w EXCEPT !.err = @ \cup {"list: write outside the array"}]

\* a reserve that copies the old entries into the new array a and keeps the
\* old array
move_list_keep(a, w, base) ==
    [w |-> IF get_size(w, base) > 0
           THEN [a.w EXCEPT !.heap[a.ret].mem =
                    [i \in DOMAIN @ |->
                        IF i <= get_size(w, base) THEN MemAt(w, base, i - 1)
                        ELSE @[i]]]
           ELSE a.w,
     ret |-> a.ret]

\* the tail of reserve: a is the new array; the old entries are copied into
\* it and the old array is freed
move_list(a, w, base) ==
    [w |-> IF get_size(w, base) > 0
           THEN free_array(
                  [a.w EXCEPT !.heap[a.ret].mem =
                      [i \in DOMAIN @ |->
                          IF i <= get_size(w, base) THEN MemAt(w, base, i - 1)
                          ELSE @[i]]],
                  base)
           ELSE a.w,
     ret |-> a.ret]

\* reserve: returns the world and the base the handle holds afterwards
reserve(w, base, size) ==
    IF get_capacity(w, base) < size
    THEN move_list(allocate_array(w, next_power_of_two(size)), w, base)
    ELSE [w |-> w, ret |-> base]

clear(w, base) == [w |-> free_array(w, base), ret |-> null_list_base]

\* get_list()[size] = ref; set_size(size + 1), on the list r that reserve left
store_back(r, size, ref) ==
    [w |-> set_size(MemSet(r.w, r.ret, size, ref), r.ret, size + 1), ret |-> r.ret]

\* a push_back that reads the size again after reserve
push_back_reread(w, base, ref) ==
    store_back(reserve(w, base, get_size(w, base) + 1),
               get_size(reserve(w, base, get_size(w, base) + 1).w,
                        reserve(w, base, get_size(w, base) + 1).ret),
               ref)

push_back(w, base, ref) ==
    store_back(reserve(w, base, get_size(w, base) + 1), get_size(w, base), ref)

pop_back(w, base) ==
    LET new_size == get_size(w, base) - 1
        w1 == set_size(w, base, new_size)
    IN IF new_size = 0 THEN clear(w1, base) ELSE [w |-> w1, ret |-> base]


\* ------------------------------------------------------- cell memory layout
\* A cell is [present, buf, pointer]: buf is the first word of the value
\* buffer (ObjectBytes while it holds a Component object), pointer the tagged
\* word [a |-> address bits, bits |-> the two low bits]; present is the
\* storage's record of whether the slot holds a container
REFERENCE_BIT == 1
LIST_BIT == 2

Cell(w, T, e) == w.storage[<<T, e>>]

\* pointer & bit
get_flag(c, bit) == IF (c.pointer.bits \div bit) % 2 = 1 THEN bit ELSE 0

set_flag(c, bit) ==
    IF get_flag(c, bit) # 0 THEN c ELSE [c EXCEPT !.pointer.bits = @ + bit]

clear_flag(c, bit) ==
    IF get_flag(c, bit) = 0 THEN c ELSE [c EXCEPT !.pointer.bits = @ - bit]

\* pointers[get_flag(REFERENCE_BIT)] of {value_base(), pointer & mask}
ref(c, T, e) ==
    IF get_flag(c, REFERENCE_BIT) = 0 THEN value_base(T, e) ELSE c.pointer.a

\* pointers[get_flag(REFERENCE_BIT)] of {pointer & mask, *(void **) &value}
get_list(c) ==
    IF get_flag(c, REFERENCE_BIT) = 0 THEN c.pointer.a ELSE c.buf

\* set_list with the two target words taken in the wrong order: the list
\* base goes into the value buffer of a cell that holds a value
set_list_swapped(c, base) ==
    set_flag(IF get_flag(c, REFERENCE_BIT) = 0
             THEN [c EXCEPT !.buf = base]
             ELSE [c EXCEPT !.pointer = [a |-> base, bits |-> 0]],
             LIST_BIT)

set_list(c, base) ==
    set_flag(IF get_flag(c, REFERENCE_BIT) = 0
             THEN [c EXCEPT !.pointer = [a |-> base, bits |-> 0]]
             ELSE [c EXCEPT !.buf = base],
             LIST_BIT)

set_single_ref(c, r) ==
    [c EXCEPT !.pointer = [a |-> r.pointer, bits |-> REFERENCE_BIT],
              !.buf = r.deleter]

get_single_ref(c) == [pointer |-> c.pointer.a, deleter |-> c.buf]

replace_ref_from_list(c, ptr) ==
    [c EXCEPT !.pointer = [a |-> ptr, bits |-> LIST_BIT + REFERENCE_BIT]]

set_only_value(c) == [c EXCEPT !.pointer = [a |-> null_list_base, bits |-> 0]]

SetCell(w, T, e, c) == [w EXCEPT !.storage[<<T, e>>] = c]

\* ENTT_ASSERT(cond, msg): a failed assertion is recorded and, as in a build
\* without assertions, execution goes on
entt_assert(w, cond, msg) == IF cond THEN w ELSE [w EXCEPT !.err = @ \cup {msg}]

\* alloc_traits::construct / destroy of the Component object of cell (T, e)
construct(w, T, e) ==
    [w EXCEPT !.storage[<<T, e>>].buf = ObjectBytes,
              !.alive = @ \cup {<<T, e>>},
              !.err = IF <<T, e>> \in w.alive
                      THEN @ \cup {"a value is constructed over a live value"}
                      ELSE @]

destroy(w, T, e) ==
    [w EXCEPT !.alive = @ \ {<<T, e>>},
              !.dtor[<<T, e>>] = IF @ < 2 THEN @ + 1 ELSE @]

\* ------------------------------------------------------------------ container
\* a constructor from a reference that leaves REFERENCE_BIT clear
container_ref_unflagged(w, T, e, r) ==
    SetCell(w, T, e,
            clear_flag(set_single_ref([Cell(w, T, e) EXCEPT !.present = TRUE], r),
                       REFERENCE_BIT))

\* polymorphic_component_container(polymorphic_component_ref ref)
container_ref(w, T, e, r) ==
    SetCell(w, T, e, set_single_ref([Cell(w, T, e) EXCEPT !.present = TRUE], r))

\* polymorphic_component_container(Args &&...args)
container_value(w, T, e) ==
    LET w1 == construct(SetCell(w, T, e, [Cell(w, T, e) EXCEPT !.present = TRUE]), T, e)
    IN SetCell(w1, T, e, set_only_value(Cell(w1, T, e)))

\* layout.set_list(list) with the base a list operation returned
install_list(r, T, e) ==
    [w |-> SetCell(r.w, T, e, set_list(Cell(r.w, T, e), r.ret)), ret |-> r.ret]

\* list.push_back(ref) on the list of r
push_onto(r, record) == push_back(r.w, r.ret, record)

\* a create_list that seeds every list with a reference to the cell's own
\* value buffer
first_ref_self(c, T, e) ==
    [pointer |-> value_base(T, e), deleter |-> deleter_of(T)]

\* what create_list seeds the list with: the single reference of the cell, or
\* the reference to its own value
first_ref(c, T, e) ==
    IF get_flag(c, REFERENCE_BIT) # 0 THEN get_single_ref(c)
    ELSE [pointer |-> value_base(T, e), deleter |-> deleter_of(T)]

\* create_list that reserves the list and does not seed it with the
\* reference or the value the cell already holds
create_list_unseeded(w, T, e) ==
    install_list(reserve(w, null_list_base, 4), T, e)

create_list(w, T, e) ==
    install_list(push_onto(reserve(w, null_list_base, 4),
                           first_ref(Cell(w, T, e), T, e)),
                 T, e)

\* a clear_list that puts the surviving pointer back without its deleter
clear_list_pointer_only(c, self_ref) ==
    IF get_flag(c, REFERENCE_BIT) # 0
    THEN [c EXCEPT !.pointer = [a |-> self_ref.pointer, bits |-> REFERENCE_BIT]]
    ELSE set_only_value(c)

clear_list(c, self_ref) ==
    IF get_flag(c, REFERENCE_BIT) # 0 THEN set_single_ref(c, self_ref)
    ELSE set_only_value(c)

\* the index of the first entry of the list that holds ptr, -1 when none does
find_ref(w, list, ptr) ==
    LET hits == {i \in 0..(get_size(w, list) - 1) : MemAt(w, list, i).pointer = ptr}
    IN IF hits = {} THEN -1 ELSE CHOOSE h \in hits : \A k \in hits : h <= k

\* std::swap(mem[i], mem[size - 1])
swap_with_last(w, list, i) ==
    MemSet(MemSet(w, list, i, MemAt(w, list, get_size(w, list) - 1)),
           list, get_size(w, list) - 1, MemAt(w, list, i))

\* after_pop that puts the surviving reference into the cell and does not
\* pop the list a second time
after_pop_once(p1, T, e, mem, size) ==
    IF size = 2
    THEN SetCell(p1.w, T, e, clear_list(Cell(p1.w, T, e), MemAt(p1.w, mem, 0)))
    ELSE SetCell(p1.w, T, e, set_list(Cell(p1.w, T, e), p1.ret))

\* what delete_ref_internal does after list.pop_back() returned p1; size is
\* the size the list had on entry and mem the address it had
after_pop(p1, T, e, mem, size) ==
    IF size = 2
    THEN pop_back(SetCell(p1.w, T, e,
                      clear_list(Cell(p1.w, T, e), MemAt(p1.w, mem, 0))),
                  p1.ret).w
    ELSE SetCell(p1.w, T, e, set_list(Cell(p1.w, T, e), p1.ret))

\* delete_ref_internal that pops the last entry without swapping the matching
\* entry into the last place
delete_ref_internal_noswap(w, T, e, list, ptr) ==
    IF find_ref(w, list, ptr) = -1 THEN [w |-> w, ret |-> FALSE]
    ELSE [w |-> after_pop(pop_back(w, list), T, e, list, get_size(w, list)),
          ret |-> TRUE]

delete_ref_internal(w, T, e, list, ptr) ==
    IF find_ref(w, list, ptr) = -1 THEN [w |-> w, ret |-> FALSE]
    ELSE [w |-> after_pop(pop_back(swap_with_last(w, list, find_ref(w, list, ptr)),
                                   list),
                          T, e, list, get_size(w, list)),
          ret |-> TRUE]

\* polymorphic_component_ref_iterator::operator->: choice[offset == -1] of
\* {list[offset].pointer, list}, the address an iterator yields
iterator_arrow(w, list, offset) ==
    IF offset = -1 THEN list ELSE MemAt(w, list, offset).pointer

\* for (auto &component : every): from begin() until the offset is end()'s
iterate(w, ev) ==
    [i \in 1..(ev.last - ev.first) |-> iterator_arrow(w, ev.list, ev.first + i - 1)]

\* polymorphic_component_ref_list::each(): {list, 0} to {list, get_size()}
list_each(w, base) == [list |-> base, first |-> 0, last |-> get_size(w, base)]

\* the pair of a cell without a list: {&ref(), -1} to {&ref(), 0}
single_each(c, T, e) == [list |-> ref(c, T, e), first |-> -1, last |-> 0]

\* an each() whose pair for a cell without a list starts at offset 0
each_pair_from_zero(w, T, e) ==
    IF get_flag(Cell(w, T, e), LIST_BIT) # 0
    THEN list_each(w, get_list(Cell(w, T, e)))
    ELSE [list |-> ref(Cell(w, T, e), T, e), first |-> 0, last |-> 0]

\* polymorphic_component_container::each(): the iterator pair it returns
each_pair(w, T, e) ==
    IF get_flag(Cell(w, T, e), LIST_BIT) # 0
    THEN list_each(w, get_list(Cell(w, T, e)))
    ELSE single_each(Cell(w, T, e), T, e)

\* the addresses each() yields, in order
\* each() that answers with ref() alone, also for a cell that has a list
each_canonical(w, T, e) ==
    <<ref(Cell(w, T, e), T, e)>>

each(w, T, e) == iterate(w, each_pair(w, T, e))

\* a & b on unsigned integers
RECURSIVE bit_and(_, _)
bit_and(a, b) ==
    IF a = 0 \/ b = 0 THEN 0
    ELSE (a % 2) * (b % 2) + 2 * bit_and(a \div 2, b \div 2)

\* std::uint8_t get_flag(bit) as the const overload reads it
flag_byte(c, bit) == get_flag(c, bit) % 256

\* a const each() that tests (get_flag(LIST_BIT) != 0) & 2u
each_const_pair_bool(w, T, e) ==
    IF bit_and(IF flag_byte(Cell(w, T, e), LIST_BIT) # 0 THEN 1 ELSE 0, 2) # 0
    THEN list_each(w, get_list(Cell(w, T, e)))
    ELSE single_each(Cell(w, T, e), T, e)

\* polymorphic_component_container::each() const:
\* if (layout.get_flag(LIST_BIT) & 2u)
each_const_pair(w, T, e) ==
    IF bit_and(flag_byte(Cell(w, T, e), LIST_BIT), 2) # 0
    THEN list_each(w, get_list(Cell(w, T, e)))
    ELSE single_each(Cell(w, T, e), T, e)

each_const(w, T, e) == iterate(w, each_const_pair(w, T, e))

\* a list that is created anew also for a cell that has one
list_always_created(w, T, e) == create_list(w, T, e)

\* ref_list list = get_flag(LIST_BIT) ? layout.get_list() : create_list()
list_or_create(w, T, e) ==
    IF get_flag(Cell(w, T, e), LIST_BIT) # 0
    THEN [w |-> w, ret |-> get_list(Cell(w, T, e))]
    ELSE create_list(w, T, e)

add_ref(w, T, e, r) ==
    install_list(
        push_onto(list_or_create(
                      entt_assert(w, r.pointer # value_base(T, e),
                                  "add_ref must not receive reference to its own value"),
                      T, e),
                  r),
        T, e).w

\* ENTT_ASSERT(result, msg) on what a call returned
assert_result(d, msg) == entt_assert(d.w, d.ret, msg)

\* delete_ref that never reports the cell as empty
delete_ref_never_empty(w, T, e, ptr) ==
    IF get_flag(Cell(w, T, e), LIST_BIT) # 0
    THEN [w |-> assert_result(
                    delete_ref_internal(w, T, e, get_list(Cell(w, T, e)), ptr),
                    "delete_ref got non-existing reference"),
          ret |-> FALSE]
    ELSE [w |-> entt_assert(w, ref(Cell(w, T, e), T, e) = ptr,
                    "delete_ref got non-existing reference (only one left)"),
          ret |-> FALSE]

\* delete_ref once its first assertion is passed
delete_ref_checked(w, T, e, ptr) ==
    IF get_flag(Cell(w, T, e), LIST_BIT) # 0
    THEN [w |-> assert_result(
                    delete_ref_internal(w, T, e, get_list(Cell(w, T, e)), ptr),
                    "delete_ref got non-existing reference"),
          ret |-> FALSE]
    ELSE [w |-> entt_assert(w, ref(Cell(w, T, e), T, e) = ptr,
                    "delete_ref got non-existing reference (only one left)"),
          ret |-> get_flag(Cell(w, T, e), REFERENCE_BIT) # 0]

delete_ref(w, T, e, ptr) ==
    delete_ref_checked(
        entt_assert(w, ptr # value_base(T, e),
                    "delete_ref must not receive reference to its own value"),
        T, e, ptr)


\* ------------------------------------------------- storage: reference plumbing
\* ~polymorphic_component_container(): destroys the value iff the cell holds one
\* a destructor that destroys the bytes of the cell whatever its flags say
container_destructor_always(w, T, e) == destroy(w, T, e)

container_destructor(w, T, e) ==
    IF get_flag(Cell(w, T, e), REFERENCE_BIT) = 0 THEN destroy(w, T, e) ELSE w

\* the storage erases the cell of (T, e): the container's destructor runs and
\* the slot is left in place (in_place_delete), its bytes as they were
release(w, T, e) ==
    IF ~Cell(w, T, e).present
    THEN [w EXCEPT !.err = @ \cup {"storage: erase of an absent cell"},
                   !.rel[<<T, e>>] = IF @ < 2 THEN @ + 1 ELSE @]
    ELSE [container_destructor(w, T, e) EXCEPT
              !.storage[<<T, e>>].present = FALSE,
              !.rel[<<T, e>>] = IF @ < 2 THEN @ + 1 ELSE @]

\* emplace_ref that indexes the sparse set with the first entity, whatever
\* entity it was handed
emplace_ref_first_entity(w, P, e, r) ==
    IF Cell(w, P, 1).present THEN add_ref(w, P, 1, r) ELSE container_ref(w, P, 1, r)

\* storage<P>::emplace_ref(entity, ref, deleter)
emplace_ref(w, P, e, r) ==
    IF Cell(w, P, e).present THEN add_ref(w, P, e, r) ELSE container_ref(w, P, e, r)

\* the storage erases the cell when the container says nothing is left in it
release_if(d, P, e) == IF d.ret THEN release(d.w, P, e) ELSE d.w

\* storage<P>::erase_ref(entity, ref)
erase_ref(w, P, e, ptr) ==
    IF ~Cell(w, P, e).present
    THEN [w EXCEPT !.err = @ \cup {"storage: erase_ref on an absent cell"}]
    ELSE release_if(delete_ref(w, P, e, ptr), P, e)

\* one term of a fold over the parents (ghost): the call is appended to
\* w.visits, and it is recorded if Component &r is no constructed value then
visit(w, op, T, e, P) ==
    [w EXCEPT !.visits = Append(@, <<op, P, e>>),
              !.err = IF <<T, e>> \in w.alive THEN @
                      ELSE @ \cup {"a parent is handed a value that is not alive"}]

\* (registry.assure<ParentComponent>().emplace_ref(entity, r, &deleter), ...)
RECURSIVE emplace_hierarchy_references(_, _, _, _, _)
emplace_hierarchy_references(w, T, e, r, sequence) ==
    IF sequence = <<>> THEN w
    ELSE emplace_hierarchy_references(
             emplace_ref(visit(w, "emplace_ref", T, e, Head(sequence)),
                         Head(sequence), e,
                         [pointer |-> r, deleter |-> deleter_of(T)]),
             T, e, r, Tail(sequence))

\* (registry.assure<ParentComponent>().erase_ref(entity, r), ...)
RECURSIVE erase_hierarchy_references(_, _, _, _, _)
erase_hierarchy_references(w, T, e, r, sequence) ==
    IF sequence = <<>> THEN w
    ELSE erase_hierarchy_references(
             erase_ref(visit(w, "erase_ref", T, e, Head(sequence)),
                       Head(sequence), e, r),
             T, e, r, Tail(sequence))

\* ------------------------------------------------- container: value life cycle
\* layout.clear_flag(REFERENCE_BIT)
drop_reference_bit(w, T, e) ==
    SetCell(w, T, e, clear_flag(Cell(w, T, e), REFERENCE_BIT))

\* construct_at(value_base(), args...); clear_flag(REFERENCE_BIT): l is the
\* list the cell has by now
construct_in(l, T, e) ==
    [w |-> drop_reference_bit(construct(l.w, T, e), T, e), ret |-> l.ret]

\* emplace_hierarchy_references(registry, entity, ref(), parent_types{})
emplace_own_references(w, T, e) ==
    emplace_hierarchy_references(w, T, e, ref(Cell(w, T, e), T, e), parent_types(T))

\* construct_value that does not add the self reference to the list
construct_value_noself(w, T, e) ==
    emplace_own_references(
        install_list(
            construct_in(
                list_or_create(
                    entt_assert(w, get_flag(Cell(w, T, e), REFERENCE_BIT) # 0,
                                "construct_value called while already holding a value"),
                    T, e),
                T, e),
            T, e).w,
        T, e)

\* construct_value up to and including layout.set_list(list): the list is
\* there, the value is constructed and the self reference is pushed
construct_and_push_self(w, T, e) ==
    install_list(
        push_onto(
            construct_in(
                list_or_create(
                    entt_assert(w, get_flag(Cell(w, T, e), REFERENCE_BIT) # 0,
                                "construct_value called while already holding a value"),
                    T, e),
                T, e),
            [pointer |-> value_base(T, e), deleter |-> deleter_of(T)]),
        T, e).w

construct_value(w, T, e) ==
    emplace_own_references(construct_and_push_self(w, T, e), T, e)

\* fan-out that reaches the direct parents only
emplace_hierarchy_after_construct_direct(w, T, e) ==
    emplace_hierarchy_references(w, T, e, ref(Cell(w, T, e), T, e),
                                 direct_parent_types_t(T))

emplace_hierarchy_after_construct(w, T, e) ==
    emplace_hierarchy_references(w, T, e, ref(Cell(w, T, e), T, e), parent_types(T))

\* a destroy_value that leaves the tagged word as it is when the list stays
replace_ref_skipped(w, T, e) == w

\* if the list keeps entries after the self reference left it:
\* layout.replace_ref_from_list(list.get_list()[0].pointer)
replace_ref(w, T, e) ==
    IF get_flag(Cell(w, T, e), LIST_BIT) # 0
    THEN SetCell(w, T, e,
             replace_ref_from_list(Cell(w, T, e),
                 MemAt(w, get_list(Cell(w, T, e)), 0).pointer))
    ELSE w

\* the second half of destroy_value: the value is destroyed and the cell
\* turns into a reference, to the first entry its list keeps if it has one
drop_value(w, T, e) ==
    IF get_flag(Cell(w, T, e), LIST_BIT) # 0
    THEN [w |-> replace_ref(
                    assert_result(
                        delete_ref_internal(
                            SetCell(w, T, e, set_flag(Cell(w, T, e), REFERENCE_BIT)),
                            T, e, get_list(Cell(w, T, e)), value_base(T, e)),
                        "self reference was not present inside the list"),
                    T, e),
          ret |-> FALSE]
    ELSE [w |-> SetCell(w, T, e, set_flag(Cell(w, T, e), REFERENCE_BIT)),
          ret |-> TRUE]

\* destroy_value that erases the references held by the direct parents only
destroy_value_direct(w, T, e) ==
    drop_value(
        destroy(
            erase_hierarchy_references(
                entt_assert(w, get_flag(Cell(w, T, e), REFERENCE_BIT) = 0,
                            "destroy_value called while not holding a value"),
                T, e, ref(Cell(w, T, e), T, e), direct_parent_types_t(T)),
            T, e),
        T, e)

\* destroy_value that destroys the value first and erases the references
\* held by the parents afterwards
destroy_value_early(w, T, e) ==
    drop_value(
        erase_hierarchy_references(
            destroy(entt_assert(w, get_flag(Cell(w, T, e), REFERENCE_BIT) = 0,
                                "destroy_value called while not holding a value"),
                    T, e),
            T, e, ref(Cell(w, T, e), T, e), parent_types(T)),
        T, e)

destroy_value(w, T, e) ==
    drop_value(
        destroy(
            erase_hierarchy_references(
                entt_assert(w, get_flag(Cell(w, T, e), REFERENCE_BIT) = 0,
                            "destroy_value called while not holding a value"),
                T, e, ref(Cell(w, T, e), T, e), parent_types(T)),
            T, e),
        T, e)

\* storage<T>::erase_value(registry, entity)
erase_value(w, T, e) ==
    IF ~Cell(w, T, e).present
    THEN [w EXCEPT !.err = @ \cup {"storage: erase_value on an absent cell"}]
    ELSE release_if(destroy_value(w, T, e), T, e)

\* container<T>::deleter, called through the pointer a reference record holds
call_deleter(w, fn, e) ==
    IF fn[1] = -100 /\ fn[2] \in AllTypes
    THEN erase_value([w EXCEPT !.calls = Append(@, <<fn[2], e>>)], fn[2], e)
    ELSE [w EXCEPT !.err = @ \cup {"call through a word that is no deleter"}]

\* a read of the cell's words by a member function that is still running
touch(w, T, e) ==
    entt_assert(w, Cell(w, T, e).present, "container used after its release")

\* the loop of destroy_all_refs without the test mem[i].pointer != this
RECURSIVE destroy_all_refs_loop_all(_, _, _, _, _)
destroy_all_refs_loop_all(w, T, e, mem, i) ==
    IF i < 0 THEN w
    ELSE destroy_all_refs_loop_all(
             call_deleter(entt_assert(w, mem \in w.inuse,
                                      "destroy_all_refs reads a list that was freed"),
                          MemAt(w, mem, i).deleter, e),
             T, e, mem, i - 1)

\* the body of the loop of destroy_all_refs at index i:
\* if (mem[i].pointer != this) mem[i].deleter(registry, entity)
loop_body(w, T, e, mem, i) ==
    LET w0 == entt_assert(w, mem \in w.inuse,
                          "destroy_all_refs reads a list that was freed")
        r == MemAt(w0, mem, i)
    IN IF r.pointer # value_base(T, e) THEN call_deleter(w0, r.deleter, e)
       ELSE w0

\* a loop that steps to the entry after when it passes over the cell's own
\* entry
next_index_past_self(w, T, e, mem, i) ==
    IF MemAt(w, mem, i).pointer # value_base(T, e) THEN i - 1 ELSE i + 1

\* i-- of the loop, w being the memory before the body ran
next_index(w, T, e, mem, i) == i - 1

\* for (int i = count - 1; i >= 0; i--) of destroy_all_refs; mem is the
\* address get_list() had before the loop
RECURSIVE destroy_all_refs_loop(_, _, _, _, _)
destroy_all_refs_loop(w, T, e, mem, i) ==
    IF i < 0 THEN w
    ELSE destroy_all_refs_loop(loop_body(w, T, e, mem, i), T, e, mem, i - 1)

\* ENTT_ASSERT(layout.get_list().get_capacity() == 0, ...): the word read as
\* a list base may by now be no list at all
assert_cleaned(w, T, e) ==
    IF get_list(Cell(w, T, e)) = null_list_base
       \/ get_list(Cell(w, T, e)) \in DOMAIN w.heap
    THEN entt_assert(w, get_capacity(w, get_list(Cell(w, T, e))) = 0,
                     "list is not fully cleaned after destroying all refs")
    ELSE [w EXCEPT !.err = @ \cup
            {"destroy_all_refs reads a capacity from a word that is no list"}]

\* layout.set_list(null list); layout.clear_flag(LIST_BIT)
reset_list(w, T, e) ==
    SetCell(w, T, e, clear_flag(set_list(Cell(w, T, e), null_list_base), LIST_BIT))

\* destroy_all_refs that returns true iff the cell still holds a value
return_value_bit(w, T, e) ==
    [w |-> w, ret |-> get_flag(Cell(w, T, e), REFERENCE_BIT) = 0]

\* return layout.get_flag(REFERENCE_BIT)
return_reference_bit(w, T, e) ==
    [w |-> w, ret |-> get_flag(Cell(w, T, e), REFERENCE_BIT) # 0]

\* destroy_all_refs from the end of its loop to the end of the list branch
after_loop(w, T, e) ==
    reset_list(assert_cleaned(touch(w, T, e), T, e), T, e)

\* the return statement of destroy_all_refs
end_all_refs(w, T, e) == return_reference_bit(touch(w, T, e), T, e)

destroy_all_refs(w, T, e) ==
    end_all_refs(
        IF get_flag(Cell(w, T, e), LIST_BIT) # 0
        THEN after_loop(destroy_all_refs_loop(
                            w, T, e, get_list(Cell(w, T, e)),
                            get_size(w, get_list(Cell(w, T, e))) - 1),
                        T, e)
        ELSE IF get_flag(Cell(w, T, e), REFERENCE_BIT) # 0
        THEN call_deleter(w, get_single_ref(Cell(w, T, e)).deleter, e)
        ELSE w,
        T, e)


\* ------------------------------------------------------ registry operations
nullptr == <<-400, 0>>

\* an emplace that does not look for a value the cell already owns
emplace_unchecked(w, T, e) ==
    LET c == Cell(w, T, e)
    IN IF c.present /\ get_flag(c, REFERENCE_BIT) # 0
       THEN [w |-> construct_value(w, T, e), ret |-> 1]
       ELSE [w |-> emplace_hierarchy_after_construct(container_value(w, T, e), T, e),
             ret |-> 1]

\* registry.emplace<T>(entity)
emplace(w, T, e) ==
    LET c == Cell(w, T, e)
    IN IF ~c.present
       THEN [w |-> emplace_hierarchy_after_construct(container_value(w, T, e), T, e),
             ret |-> 1]
       ELSE IF get_flag(c, REFERENCE_BIT) # 0
       THEN [w |-> construct_value(w, T, e), ret |-> 1]
       ELSE [w |-> w, ret |-> 0]

\* the value of the cell is destroyed unless destroy_all_refs says the cell
\* holds none
destroy_owned(d, U, e) == IF d.ret THEN d.w ELSE destroy_value(d.w, U, e).w

\* a remove that erases the cell without asking whether it is still there
release_unasked(w, U, e) == release(w, U, e)

release_if_present(w, U, e) ==
    IF Cell(w, U, e).present THEN release(w, U, e) ELSE w

\* registry.remove<U>(entity): the number of cells erased from U's storage
\* remove<U> from the return of destroy_all_refs, d, to its end
remove_after(d, U, e) ==
    [w |-> release_if_present(destroy_owned(d, U, e), U, e), ret |-> 1]

remove(w, U, e) ==
    IF ~Cell(w, U, e).present THEN [w |-> w, ret |-> 0]
    ELSE remove_after(destroy_all_refs(w, U, e), U, e)

try_get(w, U, e) ==
    IF Cell(w, U, e).present THEN ref(Cell(w, U, e), U, e) ELSE nullptr

\* registry.get<every<U>>(entity): the addresses the sequence yields
every(w, U, e) == IF Cell(w, U, e).present THEN each(w, U, e) ELSE <<>>

\* the reference records a cell holds: its list, or the one reference of a
\* cell without a list
Records(w, U, e) ==
    LET c == Cell(w, U, e)
    IN IF ~c.present THEN <<>>
       ELSE IF get_flag(c, LIST_BIT) # 0
       THEN [i \in 1..get_size(w, get_list(c)) |-> MemAt(w, get_list(c), i - 1)]
       ELSE IF get_flag(c, REFERENCE_BIT) # 0 THEN <<get_single_ref(c)>>
       ELSE <<>>

\* registry.view<U>().each(): the storage of U is walked cell by cell and
\* every element of the cell's sequence is handed out with the entity
RECURSIVE view_from(_, _, _)
view_from(w, U, e) ==
    IF e > NumEntities THEN <<>>
    ELSE [i \in DOMAIN every(w, U, e) |-> <<e, every(w, U, e)[i]>>]
         \o view_from(w, U, e + 1)

view(w, U) == view_from(w, U, 1)

\* registry.view<every<U>>().each(): one (entity, every<U>) per cell
RECURSIVE view_every_from(_, _, _)
view_every_from(w, U, e) ==
    IF e > NumEntities THEN <<>>
    ELSE (IF Cell(w, U, e).present THEN <<<<e, every(w, U, e)>>>> ELSE <<>>)
         \o view_every_from(w, U, e + 1)

view_every(w, U) == view_every_from(w, U, 1)

\* --------------------------------------------------------------------- state
\* storage: the cells of every storage; pages, heap, inuse: the page source;
\* alive (ghost): the component values constructed and not destroyed;
\* destroying: the entity registry.destroy is working on, 0 when none;
\* last: the operation that ended last, what it returned, the failed
\* assertions and invalid reads (err) met while it ran and how many times it
\* ran the destructor of each value (dtor, counted up to 2) and erased each
\* cell from its storage (rel, counted up to 2)
VARIABLES storage, pages, heap, inuse, alive, destroying, last

vars == <<storage, pages, heap, inuse, alive, destroying, last>>

\* the entities the storages have room for: those of the clients above and
\* one more
FrameEntities == 1..(NumEntities + 1)

CellIds == AllTypes \X FrameEntities

NoCell == [present |-> FALSE, buf |-> Unwritten,
           pointer |-> [a |-> Unwritten, bits |-> 0]]

\* the memory of the program at the start of an operation
World ==
    [storage |-> storage, pages |-> pages, heap |-> heap, inuse |-> inuse,
     alive |-> alive, err |-> IF destroying # 0 THEN last.err ELSE {},
     dtor |-> IF destroying # 0 THEN last.dtor ELSE [id \in CellIds |-> 0],
     rel |-> IF destroying # 0 THEN last.rel ELSE [id \in CellIds |-> 0],
     calls |-> <<>>, visits |-> <<>>]

\* Words that no operation reads before it writes them are kept as Unwritten
\* between operations: the bytes of an erased cell (both constructors write
\* buf and pointer), the slots of a list at and beyond its size (push_back
\* writes mem[size] before size grows) and the slots of a freed array (only
\* its first word, the free-list link, and its capacity are read again)
ForgetCell(c) == IF c.present THEN c ELSE NoCell

ForgetArray(w, a) ==
    LET arr == w.heap[a]
    IN [arr EXCEPT !.mem = [i \in DOMAIN @ |->
                               IF a \in w.inuse /\ i <= arr.size THEN @[i]
                               ELSE NoRef]]

Commit(w, op, T, e, arg, ret) ==
    /\ storage' = [id \in CellIds |-> ForgetCell(w.storage[id])]
    /\ pages' = w.pages
    /\ heap' = [a \in DOMAIN w.heap |-> ForgetArray(w, a)]
    /\ inuse' = w.inuse
    /\ alive' = w.alive
    /\ last' = [op |-> op, type |-> T, entity |-> e, arg |-> arg, ret |-> ret,
                err |-> w.err, dtor |-> w.dtor, rel |-> w.rel]

Init ==
    /\ storage = [id \in CellIds |-> NoCell]
    /\ pages = <<>>
    /\ heap = [a \in {} |-> NoRef]
    /\ inuse = {}
    /\ alive = {}
    /\ destroying = 0
    /\ last = [op |-> "create", type |-> 0, entity |-> 0, arg |-> NoRef, ret |-> 0,
               err |-> {}, dtor |-> [id \in CellIds |-> 0],
               rel |-> [id \in CellIds |-> 0]]

\* the end of a call that returned [w, ret]
CommitResult(r, op, T, e) == Commit(r.w, op, T, e, NoRef, r.ret)

\* registry.emplace<T>(e)
Emplace(T, e) ==
    /\ destroying = 0
    /\ Cardinality(alive) < MaxLive \/ <<T, e>> \in alive
    /\ CommitResult(emplace(World, T, e), "emplace", T, e)
    /\ UNCHANGED destroying

\* registry.remove<U>(e)
Remove(U, e) ==
    /\ destroying = 0
    /\ CommitResult(remove(World, U, e), "remove", U, e)
    /\ UNCHANGED destroying

\* one step of registry.destroy(e) that returned r: the entity is destroyed
\* once no storage holds it
CommitDestroy(r, U, e) ==
    /\ CommitResult(r, IF \A V \in Types : ~r.w.storage[<<V, e>>].present
                       THEN "destroy" ELSE "destroying", U, e)
    /\ destroying' = IF \A V \in Types : ~r.w.storage[<<V, e>>].present
                     THEN 0 ELSE e

\* registry.destroy(e), one storage at a time: the storages that hold e remove
\* it, in whatever order the registry keeps them; nothing else runs meanwhile
Destroy(U, e) ==
    /\ destroying \in {0, e}
    /\ storage[<<U, e>>].present
    /\ CommitDestroy(remove(World, U, e), U, e)

\* the deleter of a reference record a cell holds, called with the entity
Deleter(U, e) ==
    /\ destroying = 0
    /\ \E i \in DOMAIN Records(World, U, e) :
          Commit(call_deleter(World, Records(World, U, e)[i].deleter, e),
                 "deleter", U, e, Records(World, U, e)[i], 0)
    /\ UNCHANGED destroying

Next ==
    \E T \in Types, e \in Entities :
        \/ Emplace(T, e)
        \/ Remove(T, e)
        \/ Destroy(T, e)
        \/ Deleter(T, e)

Spec == Init /\ [][Next]_vars


\* --------------------------------------------- emplace a set, then remove it
\* A client that emplaces a set of types on an entity, each once and in any
\* order, and then removes types in any order until no value is left
EmplacePhase(T, e) ==
    /\ last.op \in {"create", "emplace"}
    /\ <<T, e>> \notin alive
    /\ Emplace(T, e)

RemovePhase(T, e) ==
    /\ last.op \in {"emplace", "remove"}
    /\ alive # {}
    /\ Remove(T, e)

NextOrder ==
    \E T \in Types, e \in Entities :
        \/ EmplacePhase(T, e)
        \/ RemovePhase(T, e)

SpecOrder == Init /\ [][NextOrder]_vars

\* ------------------------------------------------------ the diamond hierarchy
\* A client that emplaces and removes the components of the diamond
NextDiamond ==
    \E T \in DiamondTypes, e \in Entities :
        \/ Emplace(T, e)
        \/ Remove(T, e)

SpecDiamond == Init /\ [][NextDiamond]_vars

\* ------------------------------------------------------------ two entities
\* A client that emplaces and removes the test components, and calls the
\* deleters of the records the cells hold, on one entity more, with at most
\* MaxFrameLive values alive at a time
MaxFrameLive == 3

FrameEmplace(T, e) ==
    /\ Cardinality(alive) < MaxFrameLive \/ <<T, e>> \in alive
    /\ Emplace(T, e)

NextFrame ==
    \E T \in Types, e \in FrameEntities :
        \/ FrameEmplace(T, e)
        \/ Remove(T, e)
        \/ Deleter(T, e)

SpecFrame == Init /\ [][NextFrame]_vars

\* ------------------------------------------------- remove<U>, step by step
\* A client that emplaces and removes the test components, the loop of
\* destroy_all_refs running one entry at a time. While the loop runs last.op
\* is "loop", last.type and last.entity are the cell it runs on,
\* last.arg.pointer is the list it reads (mem) and last.ret the index i;
\* destroying is the entity, so that what the call has met so far is kept.
CascadeBegin(U, e) ==
    /\ destroying = 0
    /\ storage[<<U, e>>].present
    /\ get_flag(storage[<<U, e>>], LIST_BIT) # 0
    /\ Commit(World, "loop", U, e,
              [pointer |-> get_list(storage[<<U, e>>]), deleter |-> Unwritten],
              get_size(World, get_list(storage[<<U, e>>])) - 1)
    /\ destroying' = e

\* one pass of the loop
CascadeStep ==
    /\ last.op = "loop"
    /\ last.ret >= 0
    /\ Commit(loop_body(World, last.type, last.entity, last.arg.pointer, last.ret),
              "loop", last.type, last.entity, last.arg,
              next_index(World, last.type, last.entity, last.arg.pointer, last.ret))
    /\ UNCHANGED destroying

\* the loop is over: the rest of destroy_all_refs and of remove<U>
CascadeEnd ==
    /\ last.op = "loop"
    /\ last.ret < 0
    /\ CommitResult(remove_after(end_all_refs(after_loop(World, last.type, last.entity),
                                              last.type, last.entity),
                                 last.type, last.entity),
                    "remove", last.type, last.entity)
    /\ destroying' = 0

\* remove<U> of a cell without a list, or of no cell
CascadeRemove(U, e) ==
    /\ ~(storage[<<U, e>>].present /\ get_flag(storage[<<U, e>>], LIST_BIT) # 0)
    /\ Remove(U, e)

NextCascade ==
    \/ \E T \in Types, e \in Entities : Emplace(T, e)
    \/ \E T \in Types, e \in Entities : CascadeBegin(T, e)
    \/ \E T \in Types, e \in Entities : CascadeRemove(T, e)
    \/ CascadeStep
    \/ CascadeEnd

\* A call that has begun goes on running: weak fairness of CascadeStep \/
\* CascadeEnd, one of which is enabled exactly while a call runs (last.op is
\* "loop") and changes last
CallRuns == last.op = "loop"

CascadeFair == []<>(~CallRuns) \/ []<><<CallRuns>>_vars

SpecCascade == Init /\ [][NextCascade]_vars /\ CascadeFair

\* ------------------------------------------------------- the wide hierarchy
\* A client that emplaces the components under the root of the diamond on an
\* entity in the order of their declaration, and removes the one emplaced
\* first or the one emplaced last
WideEmplace(T, e) ==
    /\ destroying = 0
    /\ \A id \in alive : id[2] = e => id[1] < T
    /\ CommitResult(emplace(World, T, e), "emplace", T, e)
    /\ UNCHANGED destroying

WideRemove(T, e) ==
    /\ <<T, e>> \in alive
    /\ \/ \A id \in alive : id[2] = e => id[1] <= T
       \/ \A id \in alive : id[2] = e => id[1] >= T
    /\ Remove(T, e)

NextWide ==
    \E T \in WideTypes, e \in Entities :
        \/ WideEmplace(T, e)
        \/ WideRemove(T, e)

SpecWide == Init /\ [][NextWide]_vars

\* ------------------------------------------------- the page source by itself
\* A client of component_ref_list_page_source: any sequence of allocate_array
\* and of free_array of an array that was handed out and not given back. The
\* history starts with an empty pool, or after page_size - 1 or page_size
\* allocations of the list's first capacity, so that a page fills up and a
\* second page of the same element size comes to exist. The client gives back
\* only the first and the last slots of a page (PoolFreeable); the slots it
\* keeps for the whole history are read by no call and are left out of heap
\* and inuse.
MaxPoolLive == 2

FirstCapacity == next_power_of_two(4)

PoolCounts == {FirstCapacity, 2 * FirstCapacity}

PreFills == {0, page_size - 1, page_size}

\* the slots of a page that the client may give back
MayReturn(i) == i < MaxPoolLive \/ i >= page_size - 1

\* those of them that the first k allocations handed out
Returnable(k) == {<<1, i>> : i \in {j \in 0..(k - 1) : MayReturn(j)}}

\* the pool after k calls of allocate_array(FirstCapacity) on an empty pool
InitPool ==
    \E k \in PreFills :
        /\ storage = [id \in CellIds |-> NoCell]
        /\ pages = IF k = 0 THEN <<>>
                   ELSE <<[allocate_page(FirstCapacity) EXCEPT !.elem_count = k]>>
        /\ heap = [a \in Returnable(k) |->
                      [size |-> 0, capacity |-> FirstCapacity,
                       mem |-> [j \in 1..FirstCapacity |-> NoRef]]]
        /\ inuse = Returnable(k)
        /\ alive = {}
        /\ destroying = 0
        /\ last = [op |-> "create", type |-> 0, entity |-> 0, arg |-> NoRef, ret |-> 0,
                   err |-> {}, dtor |-> [id \in CellIds |-> 0],
                   rel |-> [id \in CellIds |-> 0]]

\* the end of allocate_array(n): last.arg.pointer is the base returned;
\* last.ret (ghost) is 1 when the two calls before were allocate_array(n) and
\* free_array of the base that allocate_array returned
CommitAllocate(r, n) ==
    /\ \A i \in DOMAIN r.w.pages :
          \/ r.w.pages[i].elem_count <= MaxPoolLive
          \/ r.w.pages[i].elem_count >= page_size - 1
    /\ Commit(r.w, "allocate_array", n, 0,
              [pointer |-> r.ret, deleter |-> Unwritten],
              IF last.op = "free_array" /\ last.ret = 1 /\ last.type = n
              THEN 1 ELSE 0)

PoolAllocate(n) ==
    /\ CommitAllocate(allocate_array(World, n), n)
    /\ UNCHANGED destroying

\* the arrays the client gives back: the first and the last slots of a page
PoolFreeable == {a \in inuse : MayReturn(a[2])}

\* free_array(a): last.ret (ghost) is 1 when a is the base that the call
\* before, an allocate_array, returned
PoolFree(a) ==
    /\ Commit(free_array(World, a), "free_array", Arr(World, a).capacity, 0,
              [pointer |-> a, deleter |-> Unwritten],
              IF last.op = "allocate_array" /\ last.arg.pointer = a
              THEN 1 ELSE 0)
    /\ UNCHANGED destroying

NextPool ==
    \/ \E n \in PoolCounts : PoolAllocate(n)
    \/ \E a \in PoolFreeable : PoolFree(a)

SpecPool == InitPool /\ [][NextPool]_vars

\* ------------------------------------------- the page source, used wrongly
\* A client of component_ref_list_page_source that also makes the two
\* programmer errors free_array asserts on: it calls free_array with an
\* address that lies in no page, and it writes over the capacity word of an
\* array it holds (start[1]) before giving the array back. At most one array
\* has its capacity word written over at a time. An assertion that fails is
\* recorded in last.err and ends the call.
ForeignPointers ==
    {nullptr, null_list_base, value_base(polymorphic_base, 1), <<Len(pages) + 1, 0>>}

\* the arrays in use whose capacity word is not what allocate_array wrote
Overwritten == {a \in inuse : Arr(World, a).capacity # pages[a[1]].elem_size}

\* free_array(p) of an address in no page
ForeignFree(p) ==
    /\ Commit(free_array(World, p), "free_array", 0, 0,
              [pointer |-> p, deleter |-> Unwritten], 0)
    /\ UNCHANGED destroying

\* reinterpret_cast<uintptr_t &>(a[1]) = c, by the client
OverwriteCapacity(a, c) ==
    /\ Overwritten \subseteq {a}
    /\ heap[a].capacity # c
    /\ heap' = [heap EXCEPT ![a].capacity = c]
    /\ last' = [last EXCEPT !.op = "write", !.type = c,
                            !.arg = [pointer |-> a, deleter |-> Unwritten],
                            !.ret = 0, !.err = {}]
    /\ UNCHANGED <<storage, pages, inuse, alive, destroying>>

NextMisuse ==
    \/ \E n \in PoolCounts : PoolAllocate(n)
    \/ \E a \in PoolFreeable : PoolFree(a)
    \/ \E p \in ForeignPointers : ForeignFree(p)
    \/ \E a \in PoolFreeable, c \in PoolCounts : OverwriteCapacity(a, c)

SpecMisuse == InitPool /\ [][NextMisuse]_vars

\* ------------------------------------------------ a reference list by itself
\* A client of polymorphic_component_ref_list over the page source: it holds
\* one handle, which starts as the null list, and calls reserve, push_back,
\* pop_back and clear on it. last.arg.pointer is the base the handle holds
\* after the call, last.type the argument of reserve, last.ret (ghost) the
\* size the list had when the call began.
MaxListLen == 9

\* an array that reserve does not free stays handed out for ever: the client
\* stops reserving once this many arrays are out
MaxListArrays == 2

ReserveSizes == {1, 4, 5, 8, MaxListLen}

\* the record the client pushes onto a list of n entries: a reference to the
\* value of entity n + 1
ListRef(n) ==
    [pointer |-> value_base(polymorphic_component, n + 1),
     deleter |-> deleter_of(polymorphic_component)]

InitList ==
    /\ storage = [id \in CellIds |-> NoCell]
    /\ pages = <<>>
    /\ heap = [a \in {} |-> NoRef]
    /\ inuse = {}
    /\ alive = {}
    /\ destroying = 0
    /\ last = [op |-> "create", type |-> 0, entity |-> 0,
               arg |-> [pointer |-> null_list_base, deleter |-> Unwritten],
               ret |-> 0, err |-> {}, dtor |-> [id \in CellIds |-> 0],
               rel |-> [id \in CellIds |-> 0]]

\* the end of a call on the handle that left it holding r.ret
CommitList(r, op, k) ==
    /\ Commit(r.w, op, k, 0, [pointer |-> r.ret, deleter |-> Unwritten],
              get_size(World, last.arg.pointer))
    /\ UNCHANGED destroying

ListReserve(k) ==
    /\ Cardinality(inuse) < MaxListArrays
    /\ CommitList(reserve(World, last.arg.pointer, k), "reserve", k)

ListPushBack ==
    /\ get_size(World, last.arg.pointer) < MaxListLen
    /\ Cardinality(inuse) < MaxListArrays
    /\ CommitList(push_back(World, last.arg.pointer,
                            ListRef(get_size(World, last.arg.pointer))),
                  "push_back", 0)

\* pop_back of a list that has an entry
ListPopBack ==
    /\ get_size(World, last.arg.pointer) > 0
    /\ CommitList(pop_back(World, last.arg.pointer), "pop_back", 0)

\* clear of a list that has an array
ListClear ==
    /\ IsArray(last.arg.pointer)
    /\ CommitList(clear(World, last.arg.pointer), "clear", 0)

NextList ==
    \/ \E k \in ReserveSizes : ListReserve(k)
    \/ ListPushBack
    \/ ListPopBack
    \/ ListClear

SpecList == InitList /\ [][NextList]_vars

\* ---------------------------------------------------------------- vocabulary
\* the cell of id owns a value: it exists and REFERENCE_BIT is clear
Owns(st, id) == st[id].present /\ get_flag(st[id], REFERENCE_BIT) = 0

Pointers(recs) == {recs[i].pointer : i \in DOMAIN recs}

\* the addresses of the live values on e whose type is U or a descendant of U
LiveUnder(w, U, e) ==
    {value_base(T, e) : T \in {V \in Types : is_same_or_parent_of(U, V)
                                             /\ <<V, e>> \in w.alive}}

\* -------------------------------------------------------------------- claims

\* C1. Fan-out completeness: for every live value v of type T on entity e
\* and every U in parents(T), U's cell on e holds exactly one reference
\* record whose pointer is v's address, and that record's deleter is T's.
FanOutComplete ==
    \A id \in alive : \A U \in Range(parent_types(id[1])) :
        LET recs == Records(World, U, id[2])
            hits == {i \in DOMAIN recs : recs[i].pointer = value_base(id[1], id[2])}
        IN /\ Cardinality(hits) = 1
           /\ \A i \in hits : recs[i].deleter = deleter_of(id[1])

\* three values are alive after a removal and an ancestor lists three records
FanOutComplete_Witness ==
    /\ last.op = "remove" /\ last.ret = 1
    /\ Cardinality(alive) = 3
    /\ \E id \in CellIds : Len(Records(World, id[1], id[2])) = 3

\* C2. No dangling references: every reference record held in a cell (a list
\* entry, or the one reference of a cell without a list) addresses a value
\* that is alive on the same entity and whose type is the cell's type or a
\* descendant of it.
NoDanglingRecord ==
    \A id \in CellIds :
        Pointers(Records(World, id[1], id[2])) \subseteq LiveUnder(World, id[1], id[2])

\* a removal left a list of two records and a cell with a single reference
NoDanglingRecord_Witness ==
    /\ last.op = "remove" /\ last.ret = 1
    /\ \E id \in CellIds : Len(Records(World, id[1], id[2])) = 2
    /\ \E id \in CellIds : /\ storage[id].present
                           /\ storage[id].pointer.bits = REFERENCE_BIT

\* C3. try_get<U>(e) is non-null iff a live value on e has type U or a
\* descendant of U, and then it addresses one of those live values (for a
\* cell that does not own it, the target of a record the cell holds).
TryGetCorrect ==
    \A id \in CellIds :
        LET p == try_get(World, id[1], id[2])
        IN /\ (p # nullptr) <=> (LiveUnder(World, id[1], id[2]) # {})
           /\ p # nullptr =>
                /\ p \in LiveUnder(World, id[1], id[2])
                /\ p # value_base(id[1], id[2])
                     => p \in Pointers(Records(World, id[1], id[2]))

\* C4. Canonical reference: in every cell with LIST_BIT set the reference
\* ref() yields is the pointer of an entry of the cell's list.
CanonicalInList ==
    \A id \in CellIds :
        (storage[id].present /\ get_flag(storage[id], LIST_BIT) # 0)
            => ref(storage[id], id[1], id[2]) \in Pointers(Records(World, id[1], id[2]))

RemoveLeavesNothing ==
    [][last'.op = "remove" =>
          LET U == last'.type
              e == last'.entity
              gone == {value_base(T, e) : T \in {V \in Types : is_same_or_parent_of(U, V)}}
          IN /\ \A T \in Types : is_same_or_parent_of(U, T) => <<T, e>> \notin alive'
             /\ \A X \in Types : is_same_or_parent_of(X, U) =>
                  /\ try_get(World', X, e) \notin gone
                  /\ Range(every(World', X, e)) \cap gone = {}]_vars

\* C7. LIST_BIT implies a list of at least two records.
ListHoldsTwo ==
    \A id \in CellIds :
        (storage[id].present /\ get_flag(storage[id], LIST_BIT) # 0)
            => get_size(World, get_list(storage[id])) >= 2

\* a list shrank from three records to two and stayed a list
ListHoldsTwo_Witness ==
    /\ last.op \in {"remove", "deleter"}
    /\ \E id \in CellIds : /\ storage[id].present
                           /\ get_flag(storage[id], LIST_BIT) # 0
                           /\ get_size(World, get_list(storage[id])) = 2
    /\ Cardinality(alive) = 3

\* C8. Round trip of every<U>: the addresses every<U> yields on e are the
\* addresses of the live values on e of type U or a descendant, each once.
EveryRoundTrip ==
    \A id \in CellIds :
        LET seq == every(World, id[1], id[2])
        IN /\ Range(seq) = LiveUnder(World, id[1], id[2])
           /\ \A i, j \in DOMAIN seq : seq[i] = seq[j] => i = j

\* a cell that owns a value and lists it with two others
EveryRoundTrip_Witness ==
    \E id \in CellIds :
        /\ Owns(storage, id)
        /\ Len(every(World, id[1], id[2])) = 3
        /\ value_base(id[1], id[2]) \in Range(every(World, id[1], id[2]))

\* C9. DuplicateValue: emplace<C>(e) on a cell that owns a value fails and
\* leaves every cell, the lists and the values as they were.
DuplicateValueFails ==
    [][(last'.op = "emplace" /\ Owns(storage, <<last'.type, last'.entity>>)) =>
          /\ last'.ret = 0
          /\ UNCHANGED <<storage, pages, heap, inuse, alive>>]_vars

\* a failed emplace on a cell that owns a value and holds a list
DuplicateValueFails_Witness ==
    /\ last.op = "emplace" /\ last.ret = 0
    /\ get_flag(storage[<<last.type, last.entity>>], LIST_BIT) # 0

\* C10. Every reference record is erasable on its own: calling the deleter
\* of a record (ptr, del) held on e destroys the value at ptr and no other,
\* and removes the record with that pointer from every cell on e, leaving
\* the other values visible where they were.
DeleterErasesOne ==
    [][last'.op = "deleter" =>
          LET r == last'.arg
              e == last'.entity
          IN \E T \in Types :
                /\ r.pointer = value_base(T, e)
                /\ <<T, e>> \in alive
                /\ alive' = alive \ {<<T, e>>}
                /\ last'.dtor = [id \in CellIds |-> IF id = <<T, e>> THEN 1 ELSE 0]
                /\ \A X \in Types :
                      /\ r.pointer \notin Pointers(Records(World', X, e))
                      /\ Range(every(World', X, e))
                            = Range(every(World, X, e)) \ {r.pointer}]_vars

\* a deleter call took one record out of a list that stays a list
DeleterErasesOne_Witness ==
    /\ last.op = "deleter"
    /\ last.arg.pointer # value_base(last.type, last.entity)
    /\ get_flag(storage[<<last.type, last.entity>>], LIST_BIT) # 0

DestroyEntityClean ==
    [][last'.op \in {"destroy", "destroying"} =>
          LET e == last'.entity
          IN /\ alive' \subseteq alive
             /\ \A id \in CellIds :
                   last'.dtor[id] = World.dtor[id]
                                      + (IF id \in alive \ alive' THEN 1 ELSE 0)
             /\ \A id \in CellIds : last'.dtor[id] <= 1
             /\ ~storage'[<<last'.type, e>>].present
             /\ last'.op = "destroy" =>
                   \A T \in Types :
                      /\ ~storage'[<<T, e>>].present
                      /\ <<T, e>> \notin alive'
                      /\ Records(World', T, e) = <<>>]_vars

\* an entity that carried three values in four cells was destroyed
DestroyEntityClean_Witness ==
    /\ last.op = "destroy"
    /\ Cardinality({id \in CellIds : last.dtor[id] = 1}) = 3
    /\ Cardinality({id \in CellIds : last.rel[id] >= 1}) = 4
    /\ \E id \in CellIds : last.dtor[id] = 0 /\ id # <<last.type, last.entity>>

\* C13. Cell lifecycle: between operations a cell exists for (e, U) iff e
\* carries a live value of type U or of a descendant of U; a cell holds a
\* value or at least one reference; and the arrays handed out by the page
\* source are the lists of the cells that exist with LIST_BIT set, one each,
\* so no erased cell is left holding a list.
CellLifecycle ==
    /\ \A id \in CellIds :
          /\ storage[id].present <=> LiveUnder(World, id[1], id[2]) # {}
          /\ storage[id].present =>
                Owns(storage, id) \/ Records(World, id[1], id[2]) # <<>>
    /\ inuse = {get_list(storage[id]) :
                   id \in {c \in CellIds : /\ storage[c].present
                                           /\ get_flag(storage[c], LIST_BIT) # 0}}
    /\ \A c, d \in CellIds :
          (/\ storage[c].present /\ get_flag(storage[c], LIST_BIT) # 0
           /\ storage[d].present /\ get_flag(storage[d], LIST_BIT) # 0
           /\ get_list(storage[c]) = get_list(storage[d])) => c = d

\* a removal erased a cell that held references only, gave every list back
\* to the page source and left other cells in place
CellLifecycle_Witness ==
    /\ last.op = "remove" /\ last.ret = 1
    /\ last.rel[<<last.type, last.entity>>] = 1
    /\ Cardinality({id \in CellIds : last.rel[id] = 1}) >= 2
    /\ DOMAIN heap # {} /\ inuse = {}
    /\ alive # {}

\* C14. Order independence: whatever set of types is emplaced on an entity
\* in whatever order and then removed in whatever order, once no value is
\* left every storage is in the one state it was in before (no cell for the
\* entity) and no list array is still allocated; so two runs that swap the
\* two orders end in the same state.
OrderIndependent ==
    (last.op = "remove" /\ alive = {}) =>
        /\ storage = [id \in CellIds |-> NoCell]
        /\ inuse = {}

\* types were emplaced until two cells held a list each, and the last
\* remove destroyed the two or more values that were left
OrderIndependent_Witness ==
    /\ last.op = "remove" /\ alive = {}
    /\ Len(pages) >= 1
    /\ pages[1].elem_count = 2
    /\ Cardinality({id \in CellIds : last.dtor[id] = 1}) >= 2

\* C15. Pointer stability: after every operation each live value sits in the
\* buffer of its own cell, untouched by the list and reference words of the
\* cell, and that one address is what try_get on its type, every ancestor's
\* reference record and every ancestor's every<U> report; an operation on
\* another component leaves the address reported for a value that stays
\* alive as it was.
PointerStable ==
    [][\A id \in alive' :
          /\ Owns(storage', id)
          /\ storage'[id].buf = ObjectBytes
          /\ try_get(World', id[1], id[2]) = value_base(id[1], id[2])
          /\ \A U \in Range(parent_types(id[1])) :
                /\ value_base(id[1], id[2]) \in Pointers(Records(World', U, id[2]))
                /\ value_base(id[1], id[2]) \in Range(every(World', U, id[2]))
          /\ id \in alive =>
                /\ try_get(World', id[1], id[2]) = try_get(World, id[1], id[2])
                /\ storage'[id].buf = storage[id].buf]_vars

\* a value stayed alive while the remove of another component collapsed the
\* list of the value's own cell
PointerStable_Witness ==
    \E id \in alive :
        /\ last.op = "remove" /\ last.ret = 1
        /\ last.type # id[1]
        /\ is_same_or_parent_of(id[1], last.type)
        /\ storage[id].pointer = [a |-> null_list_base, bits |-> 0]
        /\ DOMAIN heap # {}

\* C16. Iteration: view<U>() yields exactly one (entity, address) per live
\* value of type U or of a descendant of U, so an entity with two such values
\* is yielded twice and an entity with none is not yielded; view<every<U>>()
\* yields each entity that has such a value once, with a sequence of exactly
\* those values.
ViewYieldsPerValue ==
    \A U \in Types :
        \A e \in Entities :
              /\ Cardinality({i \in DOMAIN view(World, U) : view(World, U)[i][1] = e})
                   = Cardinality(LiveUnder(World, U, e))
              /\ \A i \in DOMAIN view(World, U) :
                    view(World, U)[i][1] = e => view(World, U)[i][2] \in LiveUnder(World, U, e)
              /\ \A p \in LiveUnder(World, U, e) : <<e, p>> \in Range(view(World, U))
              /\ Cardinality({i \in DOMAIN view_every(World, U) :
                                  view_every(World, U)[i][1] = e})
                   = IF LiveUnder(World, U, e) = {} THEN 0 ELSE 1
              /\ \A i \in DOMAIN view_every(World, U) :
                    view_every(World, U)[i][1] = e
                        => /\ Range(view_every(World, U)[i][2]) = LiveUnder(World, U, e)
                           /\ Len(view_every(World, U)[i][2])
                                = Cardinality(LiveUnder(World, U, e))

\* one entity is yielded twice by the view of a type with two live
\* descendant values and once by its every-view, while the view of a type
\* with no live value under it yields nothing
ViewYieldsPerValue_Witness ==
    \E U \in Types, V \in Types, e \in Entities :
        /\ Len(view(World, U)) >= 2
        /\ view(World, U)[1][1] = e /\ view(World, U)[2][1] = e
        /\ view(World, U)[1][2] # view(World, U)[2][2]
        /\ Len(view_every(World, U)) = 1
        /\ view(World, V) = <<>> /\ view_every(World, V) = <<>>

\* C17. Page pool idempotence: after any history of allocate_array and
\* free_array calls, an allocate_array(n) that returned p, followed at once by
\* free_array(p) and then by allocate_array(n), returns p again, and none of
\* the three calls fails an assertion.
PoolIdempotent ==
    [][(/\ last.op = "free_array" /\ last.ret = 1
        /\ last'.op = "allocate_array" /\ last'.type = last.type)
          => /\ last'.arg.pointer = last.arg.pointer
             /\ last'.ret = 1
             /\ last'.err = {}]_vars

\* the three calls happened on the one free slot of a page that is full
\* again, while a second page of the same element size exists
PoolIdempotent_Witness ==
    /\ last.op = "allocate_array" /\ last.ret = 1
    /\ Len(pages) >= 2
    /\ pages[2].elem_size = pages[1].elem_size
    /\ pages[2].elem_count >= 1
    /\ last.arg.pointer[1] = 1
    /\ pages[1].elem_count = page_size /\ pages[1].free_list = -1

\* the types reached from T along at most n inheritance steps
RECURSIVE ancestors_within(_, _)
ancestors_within(T, n) ==
    IF n = 0 THEN {}
    ELSE Range(direct_parent_types_t(T))
         \cup UNION {ancestors_within(P, n - 1) : P \in Range(direct_parent_types_t(T))}

Ancestors(T) == ancestors_within(T, Cardinality(AllTypes))

\* the records of U's cell on e that point at a value of another cell
Foreign(w, U, e) ==
    {i \in DOMAIN Records(w, U, e) : Records(w, U, e)[i].pointer # value_base(U, e)}

\* the records of U's cell on e that point at the value of T on e
RecordsOf(w, U, e, T) ==
    {i \in DOMAIN Records(w, U, e) : Records(w, U, e)[i].pointer = value_base(T, e)}

\* C18. parents(T) lists every type reached from T along inheritance steps,
\* each once, also when a type is reached along two paths; an emplace of a
\* value of type T adds exactly one reference record to the cell of each
\* ancestor, and an operation that destroys values takes exactly their
\* records out of the cell of each ancestor, each erase_ref finding the one
\* record it looks for.
ParentsOncePerAncestor ==
    [][/\ \A T \in AllTypes :
             /\ Len(parent_types(T)) = Cardinality(Range(parent_types(T)))
             /\ Range(parent_types(T)) = Ancestors(T)
       /\ \A T \in AllTypes, e \in Entities :
             (<<T, e>> \in alive' \ alive) =>
                 \A U \in Ancestors(T) :
                     /\ Cardinality(RecordsOf(World', U, e, T)) = 1
                     /\ Cardinality(Foreign(World', U, e))
                          = Cardinality(Foreign(World, U, e)) + 1
       /\ \A U \in AllTypes, e \in Entities :
             (alive' \subseteq alive /\ alive' # alive) =>
                 /\ Cardinality(Foreign(World', U, e))
                      = Cardinality(Foreign(World, U, e))
                        - Cardinality({id \in alive \ alive' :
                                           id[2] = e /\ U \in Ancestors(id[1])})
                 /\ \A id \in alive \ alive' :
                       id[2] = e => RecordsOf(World', U, e, id[1]) = {}
                 /\ last'.err \cap {"delete_ref got non-existing reference",
                                    "delete_ref got non-existing reference (only one left)",
                                    "storage: erase_ref on an absent cell"} = {}]_vars

\* the value at the bottom of the diamond was emplaced while the root's cell
\* held references already, and later removed again: the root, reached along
\* two paths, got one record for it and has none left
ParentsOncePerAncestor_Witness ==
    /\ Len(parent_types_t(diamond_bottom)) > Len(parent_types(diamond_bottom))
    /\ last.op = "remove" /\ last.type = diamond_bottom /\ last.ret = 1
    /\ \E e \in Entities :
          /\ last.entity = e
          /\ Cardinality(Foreign(World, diamond_root, e)) >= 2
          /\ RecordsOf(World, diamond_root, e, diamond_bottom) = {}

\* the records of U's cell on e that point at a value of another cell, in
\* the order the cell keeps them
ForeignRecords(w, U, e) ==
    SelectSeq(Records(w, U, e), LAMBDA r : r.pointer # value_base(U, e))

Reverse(s) == [j \in 1..Len(s) |-> s[Len(s) + 1 - j]]

\* the deleters destroy_all_refs invokes on U's cell on e, in order of call
DeleterCalls(w, U, e) == destroy_all_refs(w, U, e).w.calls

\* C19. destroy_all_refs on a cell invokes the deleter of every foreign
\* reference the cell holds exactly once, from the last index to the first,
\* and never the deleter of the cell's own value, although each call takes
\* its record out of the list by swap-and-pop; it returns true iff the cell
\* owns no value.
DestroyAllRefsOnce ==
    [][(last'.op = "remove" /\ last'.ret = 1) =>
          LET U == last'.type
              e == last'.entity
              foreign == ForeignRecords(World, U, e)
              calls == DeleterCalls(World, U, e)
          IN /\ Len(calls) = Len(foreign)
             /\ calls = Reverse([j \in 1..Len(foreign) |-> <<foreign[j].deleter[2], e>>])
             /\ \A j \in 1..Len(foreign) :
                   /\ foreign[j].deleter = deleter_of(foreign[j].pointer[1] * (-1))
                   /\ Cardinality({n \in 1..Len(calls) :
                                      calls[n] = <<foreign[j].deleter[2], e>>}) = 1
             /\ \A n \in 1..Len(calls) : calls[n] # <<U, e>>
             /\ destroy_all_refs(World, U, e).ret = ~Owns(storage, <<U, e>>)]_vars

\* a remove ran destroy_all_refs on a cell that owned a value and held the
\* references of two other values: the three values were destroyed
DestroyAllRefsOnce_Witness ==
    /\ last.op = "remove" /\ last.ret = 1
    /\ last.dtor[<<last.type, last.entity>>] = 1
    /\ Cardinality({id \in CellIds : last.dtor[id] = 1}) = 3

\* C20. No use after release or free during a cascade: while destroy_all_refs
\* runs on a cell, the cell is not released before destroy_all_refs has read
\* and written its flags for the last time, and the loop reads no entry from
\* an array that was given back to the page pool.
NoUseAfterRelease ==
    last.op = "remove" =>
        /\ "container used after its release" \notin last.err
        /\ "destroy_all_refs reads a list that was freed" \notin last.err

\* C21. The assertion of destroy_all_refs holds on every cell with a list,
\* with or without a value of its own: when the loop over the deleters has
\* ended, get_list().get_capacity() reads 0 from the null list.
ListCleanedAfterLoop ==
    last.op \in {"remove", "destroying", "destroy"} =>
        /\ "list is not fully cleaned after destroying all refs" \notin last.err
        /\ "destroy_all_refs reads a capacity from a word that is no list" \notin last.err

\* the messages of the assertions of construct_value, destroy_value, add_ref
\* and delete_ref
ContainerAssertions ==
    {"construct_value called while already holding a value",
     "destroy_value called while not holding a value",
     "add_ref must not receive reference to its own value",
     "delete_ref must not receive reference to its own value",
     "delete_ref got non-existing reference",
     "delete_ref got non-existing reference (only one left)",
     "self reference was not present inside the list"}

\* C22. No operation a client can call fails an assertion of construct_value,
\* destroy_value, add_ref or delete_ref: construct_value runs only on a cell
\* without a value, destroy_value only on a cell with one, add_ref and
\* delete_ref never get the cell's own value address, delete_ref always gets
\* a pointer the cell holds, and destroy_value on a cell with a list finds
\* the self-reference.
NoContainerAssertion == last.err \cap ContainerAssertions = {}

\* a remove destroyed a value through destroy_value, and delete_ref took its
\* record out of the lists of two ancestors, which still have their lists
NoContainerAssertion_Witness ==
    /\ last.op = "remove" /\ last.ret = 1
    /\ last.dtor[<<last.type, last.entity>>] = 1
    /\ Cardinality({id \in CellIds :
                       /\ storage[id].present
                       /\ get_flag(storage[id], LIST_BIT) # 0
                       /\ id[1] \in Range(parent_types(last.type))}) >= 2

\* C23. destroy_value on a cell that owns a value returns true iff no
\* reference remains: true on a cell without a list; false on a cell with a
\* list, whose self-reference is removed and which then holds the one
\* surviving reference as its single reference when the list had two
\* entries, or keeps the list with the tagged pointer equal to the pointer of
\* the first entry when it had three or more; the references it holds
\* afterwards are the foreign ones it held before. (The steps are the calls
\* of a deleter: erase_value runs destroy_value and releases the cell iff
\* destroy_value returned true.)
DestroyValueResult ==
    [][last'.op = "deleter" =>
          LET id == <<last'.arg.deleter[2], last'.entity>>
              before == Records(World, id[1], id[2])
              foreign == ForeignRecords(World, id[1], id[2])
              after == Records(World', id[1], id[2])
          IN /\ Owns(storage, id)
             /\ id \notin alive'
             /\ destroy_value(World, id[1], id[2]).ret
                  = (get_flag(storage[id], LIST_BIT) = 0)
             /\ storage'[id].present = (get_flag(storage[id], LIST_BIT) # 0)
             /\ get_flag(storage[id], LIST_BIT) # 0 =>
                   /\ get_flag(storage'[id], REFERENCE_BIT) # 0
                   /\ Len(before) = Len(foreign) + 1
                   /\ Len(after) = Len(foreign)
                   /\ Range(after) = Range(foreign)
                   /\ Len(before) = 2 =>
                         /\ get_flag(storage'[id], LIST_BIT) = 0
                         /\ get_single_ref(storage'[id]) = foreign[1]
                   /\ Len(before) >= 3 =>
                         /\ get_flag(storage'[id], LIST_BIT) # 0
                         /\ storage'[id].pointer.a = after[1].pointer]_vars

\* a deleter ran destroy_value on a cell whose list had three entries: the
\* cell keeps a list of two references and no value
DestroyValueResult_Witness ==
    /\ last.op = "deleter"
    /\ LET id == <<last.arg.deleter[2], last.entity>>
       IN /\ storage[id].present
          /\ get_flag(storage[id], LIST_BIT) # 0
          /\ get_flag(storage[id], REFERENCE_BIT) # 0
          /\ Len(Records(World, id[1], id[2])) = 2

\* C24. delete_ref(ptr) removes exactly the one entry whose pointer is ptr
\* and keeps every other entry with its deleter: a cell whose list has more
\* than two entries keeps its two flags and its array, the list one shorter;
\* a cell whose list has two entries loses the list, whose array is freed,
\* and is left with its value alone or with the surviving reference as its
\* single reference; the result is true only for a cell without a list that
\* holds just ptr, which is then empty. (The steps are the calls of the
\* deleter of a value: destroy_value runs delete_ref(ptr) once on the cell of
\* each ancestor, and the storage releases a cell iff the result was true.)
DeleteRefRemovesOne ==
    [][last'.op = "deleter" =>
          \A U \in Range(parent_types(last'.arg.deleter[2])) :
              LET e == last'.entity
                  ptr == value_base(last'.arg.deleter[2], last'.entity)
                  c == storage[<<U, last'.entity>>]
                  d == storage'[<<U, last'.entity>>]
                  before == Records(World, U, last'.entity)
                  after == Records(World', U, last'.entity)
              IN /\ c.present
                 /\ Cardinality({i \in DOMAIN before : before[i].pointer = ptr}) = 1
                 /\ Range(ForeignRecords(World', U, e))
                      = {r \in Range(ForeignRecords(World, U, e)) : r.pointer # ptr}
                 /\ delete_ref(World, U, e, ptr).ret
                      = (get_flag(c, LIST_BIT) = 0 /\ get_flag(c, REFERENCE_BIT) # 0)
                 /\ d.present = ~delete_ref(World, U, e, ptr).ret
                 /\ get_flag(c, LIST_BIT) = 0 => before = <<[pointer |-> ptr, deleter |-> last'.arg.deleter]>>
                 /\ Len(before) > 2 =>
                       /\ d.pointer.bits = c.pointer.bits
                       /\ get_list(d) = get_list(c)
                       /\ get_list(d) \in inuse'
                       /\ Len(after) = Len(before) - 1
                 /\ (get_flag(c, LIST_BIT) # 0 /\ Len(before) = 2) =>
                       /\ get_flag(d, LIST_BIT) = 0
                       /\ get_flag(d, REFERENCE_BIT) = get_flag(c, REFERENCE_BIT)
                       /\ get_list(c) \notin inuse'
                       /\ get_flag(c, REFERENCE_BIT) = 0 =>
                             (Owns(storage', <<U, e>>) /\ d.buf = ObjectBytes)
                       /\ get_flag(c, REFERENCE_BIT) # 0 =>
                             \E i \in DOMAIN before :
                                 /\ before[i].pointer # ptr
                                 /\ get_single_ref(d) = before[i]]_vars

\* the deleter of one value ran delete_ref on a list of three entries, which
\* keeps two, and on a list of two entries of a cell without a value, which
\* is left with a single reference
DeleteRefRemovesOne_Witness ==
    /\ last.op = "deleter"
    /\ \E U \in Types, V \in Types :
          /\ {U, V} \subseteq Range(parent_types(last.arg.deleter[2]))
          /\ storage[<<U, last.entity>>].present
          /\ get_flag(storage[<<U, last.entity>>], LIST_BIT) # 0
          /\ Len(Records(World, U, last.entity)) = 2
          /\ storage[<<V, last.entity>>].present
          /\ storage[<<V, last.entity>>].pointer.bits = REFERENCE_BIT

\* C25. construct_value on a cell of references only (one reference, or a
\* list) leaves the cell with a value and a list: REFERENCE_BIT clear,
\* LIST_BIT set, the list holding every record the cell held before, pointer
\* and deleter intact and in their order, followed by exactly one
\* self-reference; the references in the cells of the ancestors are added
\* only after that.
ConstructValueKeepsRefs ==
    [][(/\ last'.op = "emplace" /\ last'.ret = 1
        /\ storage[<<last'.type, last'.entity>>].present) =>
          LET T == last'.type
              e == last'.entity
              self == [pointer |-> value_base(last'.type, last'.entity),
                       deleter |-> deleter_of(last'.type)]
              before == Records(World, last'.type, last'.entity)
              after == Records(World', last'.type, last'.entity)
              mid == construct_and_push_self(World, last'.type, last'.entity)
          IN /\ get_flag(storage[<<T, e>>], REFERENCE_BIT) # 0
             /\ Len(before) >= 1
             /\ get_flag(storage'[<<T, e>>], REFERENCE_BIT) = 0
             /\ get_flag(storage'[<<T, e>>], LIST_BIT) # 0
             /\ storage'[<<T, e>>].buf = ObjectBytes
             /\ after = before \o <<self>>
             /\ self \notin Range(before)
             /\ Records(mid, T, e) = after
             /\ <<T, e>> \in mid.alive
             /\ \A U \in Range(parent_types(T)) :
                   /\ Records(mid, U, e) = Records(World, U, e)
                   /\ RecordsOf(mid, U, e, T) = {}
                   /\ Cardinality(RecordsOf(World', U, e, T)) = 1]_vars

\* a value was constructed in a cell that held a list of two references, and
\* its own reference was fanned out to an ancestor
ConstructValueKeepsRefs_Witness ==
    /\ last.op = "emplace" /\ last.ret = 1
    /\ Len(Records(World, last.type, last.entity)) = 3
    /\ Records(World, last.type, last.entity)[3].pointer
         = value_base(last.type, last.entity)
    /\ Range(parent_types(last.type)) # {}

\* C26. emplace_ref and add_ref never change REFERENCE_BIT: emplace_ref on an
\* absent cell creates it with the new reference as its single reference;
\* add_ref turns a cell with a value and no list into one with the list
\* [self-reference, new], a cell with one reference into one with the list
\* [held reference, new], and on a cell that has a list appends the new
\* reference, the flags, the entries held before and the canonical reference
\* staying as they were. (The steps are the emplaces of a value: the fan-out
\* runs emplace_ref once on the cell of each ancestor.)
AddRefKeepsState ==
    [][(/\ last'.op = "emplace" /\ last'.ret = 1) =>
          \A U \in Range(parent_types(last'.type)) :
              LET e == last'.entity
                  new == [pointer |-> value_base(last'.type, last'.entity),
                          deleter |-> deleter_of(last'.type)]
                  own == [pointer |-> value_base(U, last'.entity),
                          deleter |-> deleter_of(U)]
                  c == storage[<<U, last'.entity>>]
                  d == storage'[<<U, last'.entity>>]
                  before == Records(World, U, last'.entity)
                  after == Records(World', U, last'.entity)
              IN /\ d.present
                 /\ ~c.present =>
                       /\ d.pointer.bits = REFERENCE_BIT
                       /\ get_single_ref(d) = new
                 /\ c.present =>
                       /\ get_flag(d, REFERENCE_BIT) = get_flag(c, REFERENCE_BIT)
                       /\ get_flag(d, LIST_BIT) # 0
                       /\ ref(d, U, e) = ref(c, U, e)
                       /\ get_flag(c, REFERENCE_BIT) = 0 => d.buf = c.buf
                       /\ c.pointer.bits = 0 => after = <<own, new>>
                       /\ c.pointer.bits = REFERENCE_BIT
                             => after = <<get_single_ref(c), new>>
                       /\ get_flag(c, LIST_BIT) # 0
                             => (after = before \o <<new>> /\ get_list(d) = get_list(c))]_vars

\* one emplace created the cell of an ancestor from the reference and gave
\* the cell of another ancestor, which had a value alone, a list of two
AddRefKeepsState_Witness ==
    /\ last.op = "emplace" /\ last.ret = 1
    /\ \E U \in Types, V \in Types :
          /\ {U, V} \subseteq Range(parent_types(last.type))
          /\ storage[<<U, last.entity>>].present
          /\ storage[<<U, last.entity>>].pointer.bits = REFERENCE_BIT
          /\ Owns(storage, <<V, last.entity>>)
          /\ Len(Records(World, V, last.entity)) = 2

\* the state an emplace of T on e has reached when the fan-out starts
Constructed(w, T, e) ==
    IF Cell(w, T, e).present THEN construct_and_push_self(w, T, e)
    ELSE container_value(w, T, e)

\* the calls a fold over the parents of T makes, in the declared order
FoldVisits(op, T, e) ==
    [i \in 1..Len(parent_types(T)) |-> <<op, parent_types(T)[i], e>>]

\* after the first k terms of a fold the value is alive, and the cells of
\* the first k parents have `done` records for it, the others `todo`
FoldPrefix(w, T, e, k, done, todo) ==
    /\ <<T, e>> \in w.alive
    /\ \A i \in 1..Len(parent_types(T)) :
          Cardinality(RecordsOf(w, parent_types(T)[i], e, T))
            = IF i <= k THEN done ELSE todo

\* C27. Fan-out ordering: an emplace constructs the value, and pushes its
\* self-reference where its cell has a list, before it adds a reference to
\* any ancestor; an erase removes the reference from every ancestor before it
\* destroys the value; both visit the ancestors in the declared order of the
\* transitive parents; so after every term of a fan-out the value is alive,
\* the ancestors visited so far have (emplace) or have lost (erase) their
\* record of it, and the others have not.
FanOutOrdered ==
    [][/\ "a parent is handed a value that is not alive" \notin last'.err
       /\ (last'.op = "emplace" /\ last'.ret = 1) =>
             /\ emplace(World, last'.type, last'.entity).w.visits
                  = FoldVisits("emplace_ref", last'.type, last'.entity)
             /\ \A k \in 0..Len(parent_types(last'.type)) :
                   FoldPrefix(emplace_hierarchy_references(
                                  Constructed(World, last'.type, last'.entity),
                                  last'.type, last'.entity,
                                  value_base(last'.type, last'.entity),
                                  SubSeq(parent_types(last'.type), 1, k)),
                              last'.type, last'.entity, k, 1, 0)
             /\ \A U \in Types :
                   Records(emplace_hierarchy_references(
                               Constructed(World, last'.type, last'.entity),
                               last'.type, last'.entity,
                               value_base(last'.type, last'.entity),
                               parent_types(last'.type)),
                           U, last'.entity)
                     = Records(World', U, last'.entity)
       /\ last'.op = "deleter" =>
             /\ call_deleter(World, last'.arg.deleter, last'.entity).visits
                  = FoldVisits("erase_ref", last'.arg.deleter[2], last'.entity)
             /\ \A k \in 0..Len(parent_types(last'.arg.deleter[2])) :
                   FoldPrefix(erase_hierarchy_references(
                                  World, last'.arg.deleter[2], last'.entity,
                                  value_base(last'.arg.deleter[2], last'.entity),
                                  SubSeq(parent_types(last'.arg.deleter[2]), 1, k)),
                              last'.arg.deleter[2], last'.entity, k, 0, 1)
             /\ <<last'.arg.deleter[2], last'.entity>> \notin alive'
       /\ last'.op = "remove" =>
             LET visits == remove(World, last'.type, last'.entity).w.visits
             IN /\ \A i \in DOMAIN visits : visits[i][1] = "erase_ref"
                /\ \A id \in alive \ alive' :
                      \A P \in Range(parent_types(id[1])) :
                          Cardinality({i \in DOMAIN visits : visits[i] = <<"erase_ref", P, id[2]>>})
                            = Cardinality({d \in alive \ alive' :
                                              d[2] = id[2] /\ P \in Range(parent_types(d[1]))})]_vars

\* an emplace fanned a value out to two ancestors, one of which had a list
\* already, and a deleter later erased a value with two ancestors
FanOutOrdered_Witness ==
    /\ last.op = "deleter"
    /\ Len(parent_types(last.arg.deleter[2])) = 2
    /\ \E U \in Range(parent_types(last.arg.deleter[2])) :
          /\ storage[<<U, last.entity>>].present
          /\ get_flag(storage[<<U, last.entity>>], LIST_BIT) # 0

\* C28. Self-reference invariant: in every state the list of a cell has an
\* entry whose pointer is the address of the cell's own value iff the cell
\* owns a value, that entry occurs once, and the entries of a list have
\* pairwise distinct pointers.
SelfReferenceOnce ==
    \A id \in CellIds :
        (storage[id].present /\ get_flag(storage[id], LIST_BIT) # 0) =>
            /\ Cardinality(RecordsOf(World, id[1], id[2], id[1]))
                 = IF get_flag(storage[id], REFERENCE_BIT) = 0 THEN 1 ELSE 0
            /\ Cardinality(Pointers(Records(World, id[1], id[2])))
                 = Len(Records(World, id[1], id[2]))

\* a cell with a value has a list of three in which the self-reference is not
\* the first entry, next to a cell without a value that has a list
SelfReferenceOnce_Witness ==
    \E id \in CellIds, jd \in CellIds :
        /\ Owns(storage, id) /\ get_flag(storage[id], LIST_BIT) # 0
        /\ Len(Records(World, id[1], id[2])) = 3
        /\ Records(World, id[1], id[2])[1].pointer # value_base(id[1], id[2])
        /\ storage[jd].present
        /\ storage[jd].pointer.bits = REFERENCE_BIT + LIST_BIT

\* C29. each() on a cell without a list yields exactly one element, ref(),
\* from offset -1 to offset 0; on a cell with a list it yields as many
\* elements as the list has entries, the i-th being the pointer of the i-th
\* entry; the sequence of an existing cell is never empty.
EachYieldsEntries ==
    \A id \in CellIds :
        storage[id].present =>
            /\ Len(each(World, id[1], id[2])) >= 1
            /\ get_flag(storage[id], LIST_BIT) = 0 =>
                  /\ each(World, id[1], id[2]) = <<ref(storage[id], id[1], id[2])>>
                  /\ each_pair(World, id[1], id[2]).first = -1
                  /\ each_pair(World, id[1], id[2]).last = 0
            /\ get_flag(storage[id], LIST_BIT) # 0 =>
                  /\ Len(each(World, id[1], id[2])) = get_size(World, get_list(storage[id]))
                  /\ each_pair(World, id[1], id[2]).first = 0
                  /\ \A i \in 1..Len(each(World, id[1], id[2])) :
                        each(World, id[1], id[2])[i]
                          = heap[get_list(storage[id])].mem[i].pointer

\* each() ran on a cell with one reference, on a cell with a value alone and
\* on a cell with a list of two
EachYieldsEntries_Witness ==
    \E id \in CellIds, jd \in CellIds, kd \in CellIds :
        /\ storage[id].present /\ storage[id].pointer.bits = REFERENCE_BIT
        /\ storage[jd].present /\ storage[jd].pointer.bits = 0
        /\ storage[kd].present /\ get_flag(storage[kd], LIST_BIT) # 0
        /\ Len(each(World, kd[1], kd[2])) = 2

\* C30. The const overload of each() takes the list branch exactly when
\* LIST_BIT is set, its test get_flag(LIST_BIT) & 2u being non-zero iff the
\* bit is set, and yields the same sequence of addresses as the non-const
\* each() in every state of a cell.
ConstEachAgrees ==
    \A id \in CellIds :
        storage[id].present =>
            /\ (bit_and(flag_byte(storage[id], LIST_BIT), 2) # 0)
                 = (get_flag(storage[id], LIST_BIT) # 0)
            /\ each_const_pair(World, id[1], id[2]) = each_pair(World, id[1], id[2])
            /\ each_const(World, id[1], id[2]) = each(World, id[1], id[2])

\* cells in three of the four states are there at once: a value alone, a
\* value with a list and references with a list
ConstEachAgrees_Witness ==
    \E id \in CellIds, jd \in CellIds, kd \in CellIds :
        /\ storage[id].present /\ storage[id].pointer.bits = 0
        /\ storage[jd].present /\ storage[jd].pointer.bits = LIST_BIT
        /\ storage[kd].present /\ storage[kd].pointer.bits = LIST_BIT + REFERENCE_BIT
        /\ Len(each_const(World, kd[1], kd[2])) = 2

\* the entries 0..n-1 of the list at base
Entries(w, base, n) == [i \in 1..n |-> MemAt(w, base, i - 1)]

\* C31. reserve(k) on a list with capacity < k allocates a fresh array of
\* capacity next_pow2(k), copies the references, frees the old array and
\* leaves the size of the list what it was; with capacity >= k it changes
\* nothing.
ReservePreserves ==
    [][last'.op = "reserve" =>
        LET base == last.arg.pointer
            r == reserve(World, base, last'.type)
        IN IF get_capacity(World, base) < last'.type
           THEN /\ r.ret # base
                /\ r.ret \in r.w.inuse
                /\ r.ret \notin inuse
                /\ get_capacity(r.w, r.ret) = next_power_of_two(last'.type)
                /\ get_size(r.w, r.ret) = get_size(World, base)
                /\ Entries(r.w, r.ret, get_size(World, base))
                     = Entries(World, base, get_size(World, base))
                /\ IsArray(base) => base \notin r.w.inuse
           ELSE r.ret = base /\ r.w = World]_vars

\* the lists that cells hold: the cells that exist and have LIST_BIT set
ListCells == {id \in CellIds : storage[id].present
                               /\ get_flag(storage[id], LIST_BIT) # 0}

\* C32. push_back appends at index size and adds one to the size while the
\* entries 0..size-1 keep their content and order, also when the push crosses
\* a capacity and the array is reallocated (4 to 8, 8 to 16); every list a
\* cell holds has size <= capacity and a capacity that is a power of two >= 4.
PushBackAppends ==
    \A id \in ListCells :
        LET base == get_list(storage[id])
            n == get_size(World, base)
            cap == get_capacity(World, base)
            r == push_back(World, base, ListRef(n))
        IN /\ n <= cap
           /\ cap >= 4
           /\ next_power_of_two(cap) = cap
           /\ get_size(r.w, r.ret) = n + 1
           /\ MemAt(r.w, r.ret, n) = ListRef(n)
           /\ Entries(r.w, r.ret, n) = Entries(World, base, n)
           /\ get_capacity(r.w, r.ret) = IF n = cap THEN 2 * cap ELSE cap
           /\ (n < cap) = (r.ret = base)
           /\ r.w.err = World.err

\* an emplace pushed the ninth entry onto a list, which had crossed from 4 to
\* 8 and from 8 to 16 on the way, while another cell holds a list of 2 in an
\* array of 4
PushBackAppends_Witness ==
    /\ last.op = "emplace"
    /\ \E id \in ListCells :
          /\ get_size(World, get_list(storage[id])) = 9
          /\ get_capacity(World, get_list(storage[id])) = 16
    /\ \E id \in ListCells :
          /\ get_size(World, get_list(storage[id])) = 2
          /\ get_capacity(World, get_list(storage[id])) = 4

\* the arrays handed out lie apart, each in a page of its capacity, and no
\* page has handed out more than page_size slots
PoolSound ==
    /\ \A a \in inuse :
          /\ a[1] \in DOMAIN pages
          /\ heap[a].capacity = pages[a[1]].elem_size
          /\ a[2] >= 0 /\ a[2] < pages[a[1]].elem_count
    /\ \A a \in inuse, b \in inuse :
          a # b /\ a[1] = b[1] => ArrayWords(World, a) \cap ArrayWords(World, b) = {}
    /\ \A i \in DOMAIN pages :
          pages[i].elem_count >= 0 /\ pages[i].elem_count <= page_size

\* C33. The page pool never hands out a slot that is still in use: under any
\* sequence of allocate_array and of free_array of arrays that are allocated,
\* the arrays allocated and not freed take pairwise distinct slots that do
\* not overlap, every array of capacity n lies in a page whose elem_size is
\* n, and the elem_count of a page never exceeds 1024.
PoolNeverReuses ==
    [][/\ last'.op = "allocate_array" =>
             /\ last'.arg.pointer \notin inuse
             /\ last'.arg.pointer \in inuse'
             /\ MayReturn(last'.arg.pointer[2])
             /\ inuse \subseteq inuse'
       /\ PoolSound']_vars

\* allocate_array took a slot from the free list of a page that has handed
\* out all of its 1024 slots, while another array of that page is in use and
\* a second page exists
PoolNeverReuses_Witness ==
    /\ last.op = "allocate_array"
    /\ pages[last.arg.pointer[1]].elem_count = page_size
    /\ last.arg.pointer[2] < page_size - 1
    /\ \E a \in inuse : a # last.arg.pointer /\ a[1] = last.arg.pointer[1]
    /\ Len(pages) >= 2

\* the free slots of page pg, the one freed last first: the head of the free
\* list and the slots its links lead to
RECURSIVE FreeChainFrom(_, _, _, _)
FreeChainFrom(h, pg, index, fuel) ==
    IF index = -1 \/ fuel = 0 THEN <<>>
    ELSE <<index>> \o FreeChainFrom(h, pg, h[<<pg, index>>].size, fuel - 1)

FreeChainOf(ps, h, pg) ==
    FreeChainFrom(h, pg, ps[pg].free_list, Cardinality(DOMAIN h))

FreeChain(pg) == FreeChainOf(pages, heap, pg)

\* the pages allocate_array(n) may take a slot from
PagesWithRoom(n) ==
    {i \in DOMAIN pages :
        /\ pages[i].elem_size = n
        /\ (pages[i].elem_count < page_size \/ FreeChain(i) # <<>>)}

\* C34. allocate_array(n) returns an array whose header reads size 0 and
\* capacity n, taken from the first page with elem_size n that has spare
\* capacity or a free slot; within that page the slot freed last is reused
\* before a slot never used is taken, and a new page is created only when no
\* such page exists.
AllocateFirstFitLifo ==
    [][/\ last'.op = "allocate_array" =>
             LET n == last'.type
                 base == last'.arg.pointer
                 room == PagesWithRoom(n)
                 pg == IF room = {} THEN Len(pages) + 1
                       ELSE CHOOSE i \in room : \A j \in room : i <= j
             IN /\ heap'[base].size = 0
                /\ heap'[base].capacity = n
                /\ base[1] = pg
                /\ Len(pages') = IF room = {} THEN Len(pages) + 1 ELSE Len(pages)
                /\ pages'[pg].elem_size = n
                /\ \A i \in DOMAIN pages : i # pg => pages'[i] = pages[i]
                /\ IF room # {} /\ FreeChain(pg) # <<>>
                   THEN /\ base[2] = Head(FreeChain(pg))
                        /\ FreeChainOf(pages', heap', pg) = Tail(FreeChain(pg))
                        /\ pages'[pg].elem_count = pages[pg].elem_count
                   ELSE /\ base[2] = IF room = {} THEN 0 ELSE pages[pg].elem_count
                        /\ pages'[pg].elem_count = base[2] + 1
                        /\ pages'[pg].free_list = -1
       /\ last'.op = "free_array" =>
             /\ Len(pages') = Len(pages)
             /\ FreeChainOf(pages', heap', last'.arg.pointer[1])
                  = <<last'.arg.pointer[2]>> \o FreeChain(last'.arg.pointer[1])]_vars

\* allocate_array took the slot freed last of two free slots of the first
\* page, which had handed out its 1024 slots, while a second page of the same
\* elem_size had room
AllocateFirstFitLifo_Witness ==
    /\ last.op = "allocate_array"
    /\ last.arg.pointer[1] = 1
    /\ Len(pages) >= 2
    /\ pages[1].elem_count = page_size
    /\ pages[2].elem_size = pages[1].elem_size
    /\ pages[2].elem_count < page_size
    /\ Len(FreeChain(1)) >= 1

\* C35. No list array is leaked or shared: after every operation the arrays
\* of the pool that are allocated and not freed are exactly the arrays the
\* cells with LIST_BIT hold, one per cell and none held by two cells, and no
\* cell holds a freed array; once no value is left on any entity no array is
\* allocated.
NoArrayLeak ==
    /\ inuse = {get_list(storage[id]) : id \in ListCells}
    /\ \A id \in ListCells, jd \in ListCells :
          id # jd => get_list(storage[id]) # get_list(storage[jd])
    /\ alive = {} => inuse = {}

\* a removal left a list in an array of 8 and another list, after an array of
\* 16 and an array of 4 were given back
NoArrayLeak_Witness ==
    /\ last.op = "remove"
    /\ Cardinality(inuse) >= 2
    /\ \E id \in ListCells : get_capacity(World, get_list(storage[id])) = 8
    /\ \E i \in DOMAIN pages : pages[i].elem_size = 16 /\ pages[i].free_list # -1
    /\ \E i \in DOMAIN pages : pages[i].elem_size = 4 /\ pages[i].free_list # -1

CellViewOf(st, hp, used, id) ==
    [cell |-> st[id],
     list |-> IF st[id].present /\ get_flag(st[id], LIST_BIT) # 0
              THEN <<get_list(st[id]) \in used, hp[get_list(st[id])]>>
              ELSE <<>>,
     canonical |-> IF st[id].present THEN ref(st[id], id[1], id[2]) ELSE nullptr]

\* the cells a fan-out of a value of type C on e may change
FrameOf(C, e) == {<<T, e>> : T \in {C} \cup Range(parent_types(C))}

KeptOutside(cells) ==
    \A id \in CellIds \ cells :
        CellViewOf(storage', heap', inuse', id) = CellViewOf(storage, heap, inuse, id)

\* C37. Frame of a fan-out: emplacing or erasing a value of type C on entity
\* e changes only the cells of C and of the types in parents(C) on e; the
\* cells of every other entity and the cells on e of other types (siblings,
\* descendants of C, unrelated types) keep their state, the contents of their
\* lists and their canonical reference. A remove<U> that erases several
\* values changes only the cells of their fan-outs.
FanOutFrame ==
    [][/\ last'.op = "emplace" => KeptOutside(FrameOf(last'.type, last'.entity))
       /\ last'.op = "deleter" =>
             KeptOutside(FrameOf(last'.arg.deleter[2], last'.entity))
       /\ last'.op = "remove" =>
             KeptOutside(UNION {FrameOf(id[1], id[2]) : id \in alive \ alive'})]_vars

\* a deleter erased a value on one entity while a cell of a descendant of its
\* type was there on that entity and the other entity had a cell
FanOutFrame_Witness ==
    /\ last.op = "deleter"
    /\ <<last.arg.deleter[2], last.entity>> \notin alive
    /\ last.dtor[<<last.arg.deleter[2], last.entity>>] = 1
    /\ \E id \in CellIds \ FrameOf(last.arg.deleter[2], last.entity) :
          id[2] = last.entity /\ storage[id].present
    /\ \E id \in CellIds : id[2] # last.entity /\ storage[id].present

\* the addresses that lie in no page of the pool
OutsidePages(ps, a) == ~\E i \in DOMAIN ps : a[1] = i /\ a[2] \in 0..(page_size - 1)

\* the free list and the element count of every page are what they were
PagesKept ==
    /\ Len(pages') = Len(pages)
    /\ \A i \in DOMAIN pages :
          /\ pages'[i].free_list = pages[i].free_list
          /\ pages'[i].elem_count = pages[i].elem_count

MismatchAsserts == {"free_array: no page", "free_array: size mismatch"}

\* C38. free_array of an address outside every page, or of an array whose
\* capacity word differs from the elem_size of the page it lies in, fails an
\* assertion and leaves the free list and the elem_count of every page as
\* they were; free_array of an array that allocate_array handed out, with
\* the capacity word allocate_array wrote, fails neither assertion.
MismatchDetected ==
    [][last'.op = "free_array" =>
          LET a == last'.arg.pointer
          IN /\ OutsidePages(pages, a) =>
                   "free_array: no page" \in last'.err /\ PagesKept
             /\ (~OutsidePages(pages, a)
                   /\ Arr(World, a).capacity # pages[a[1]].elem_size) =>
                   "free_array: size mismatch" \in last'.err /\ PagesKept
             /\ (a \in inuse /\ ~OutsidePages(pages, a)
                   /\ Arr(World, a).capacity = pages[a[1]].elem_size) =>
                   /\ last'.err \cap MismatchAsserts = {}
                   /\ pages'[a[1]].free_list = a[2]]_vars

\* free_array was called on an array of a page of 4 whose capacity word reads
\* 8 while the pool has a page of 8 too and a page with a free list: the
\* assertion failed and the array is still handed out
MismatchDetected_Witness ==
    /\ last.op = "free_array"
    /\ "free_array: size mismatch" \in last.err
    /\ last.arg.pointer \in inuse
    /\ pages[last.arg.pointer[1]].elem_size = FirstCapacity
    /\ heap[last.arg.pointer].capacity = 2 * FirstCapacity
    /\ \E i \in DOMAIN pages : pages[i].elem_size = 2 * FirstCapacity
    /\ \E i \in DOMAIN pages : pages[i].free_list # -1

=============================================================================
